---- MODULE Spec2Model ----
(***************************************************************************)
(* Model of the Zeabur VS Code extension's deploy command                  *)
(* (src/src/extension.ts): packaging of the workspace into                 *)
(* .zeabur/project.zip, provisioning of a project and a service keyed by   *)
(* .zeabur/config.json, the environment lookup, the upload, and the domain *)
(* lookup with its create fallback.                                        *)
(*                                                                         *)
(* One action is one run of a command handler between two awaits: the      *)
(* synchronous code after an awaited promise settles, up to the next       *)
(* await.  An error path runs its catch blocks and the finally block in    *)
(* the same action, since nothing is awaited between them.  A remote call  *)
(* is answered when the action named after it fires; its answer is drawn   *)
(* from Outcomes.  A transport failure is a request that did not reach     *)
(* the backend.                                                            *)
(*                                                                         *)
(* Further sections model the ignore rules of packaging (SpecArchive), the *)
(* derivation of the service and domain names (SpecNames), the API key     *)
(* with the sidebar's User section (SpecAuth), the upload-session variant  *)
(* of the command (SpecSession), and its first variant (SpecOld).          *)
(***************************************************************************)
EXTENDS Integers, Sequences, FiniteSets, TLC

\* Number of handler invocations of zeabur-vscode.deploy that can be pending.
MaxInv == 2
\* Number of projects (and of services) the backend hands out.
MaxProjects == 2
\* Number of domains the backend binds to one service.
MaxDomains == 2

Inv == 1..MaxInv
ProjectIDs == 1..MaxProjects
ServiceIDs == 1..MaxProjects

\* A missing identifier: undefined, or a falsy value, in the config record.
NoID == 0
NoResult == <<0, 0, 0>>

\* Answers of the control plane to one request: data, an errors array whose
\* first message is 'Permission denied', an errors array with another
\* message, a body with neither data nor errors, or a rejected fetch.
Outcomes == {"ok", "denied", "error", "nodata", "throw"}
\* Answers of the deploy endpoint: a response (of any status) or a rejected fetch.
UploadOutcomes == {"ok", "error", "throw"}

PermissionDenied == "Permission denied"
BackendError == "Backend error"
NetworkError == "fetch failed"
TypeError == "TypeError: Cannot read properties of undefined"
NoEnvironments == "No environments found for the project"
NoDomain == "No domain found for the service"
NoWorkspace == "No workspace folder open"
ClaimedNotice == "This project is claimed, please sign in to your Zeabur account."
ArchiveError == "archive error"
GitignoreError == "EISDIR: illegal operation on a directory, read"
ENOENT == "ENOENT: no such file or directory"

VARIABLES
    workspaceOpen,  \* vscode.workspace.workspaceFolders is non-empty
    zeaburDir,      \* the directory .zeabur exists
    zipExists,      \* the file .zeabur/project.zip exists
    config,         \* the file .zeabur/config.json
    nProjects,      \* backend: projects created so far
    nServices,      \* backend: services created so far
    svcProject,     \* backend: the project each service is scoped to
    envReady,       \* backend: projects whose environment exists
    domains,        \* backend: number of domains bound to each service
    pc,             \* per invocation: the promise it awaits
    projectID,      \* per invocation: locals of deploy()
    serviceID,
    justCreated,
    environmentID,
    log,            \* per invocation: file and remote operations, in order
    shown,          \* per invocation: texts passed to showErrorMessage
    raised,         \* per invocation: errors thrown by its steps
    result,         \* per invocation: the value deploy() returned
    header,         \* per invocation: the Authorization header of its last request
    gitignore,      \* packaging: the lines of the workspace's .gitignore
    globbed,        \* packaging: files archive.glob has matched so far
    archive,        \* packaging: entries archive.glob has added
    walked,         \* packaging (ignore variant): files the walk has visited
    archiveIg,      \* packaging (ignore variant): files archive.file has added
    zipEntries,     \* packaging (ignore variant): the calls of archive.file, in order
    sep,            \* packaging (ignore variant): path.sep of the platform
    title,          \* naming: path.basename(workspacePath)
    convertedName,  \* naming: the service name deployToZeabur derives from it
    randomString,   \* naming: the string generateRandomString is building
    domainRequest,  \* naming: the variables of the addDomain request
    nameStage,      \* naming: how far the derivation has come
    token,          \* context.globalState 'zeaburApiKey'
    tokenWriter,    \* the operation that last updated 'zeaburApiKey'
    sidebarPc,      \* getLoginInformationItems: the promise it awaits
    loginItems,     \* the items getLoginInformationItems last returned
    sidebarNotice,  \* whether its last request showed the sign-in notice
    isDeploying,    \* upload-session variant: let isDeploying
    treePc,         \* sidebar: the await at which getActionItems stands
    treeID,         \* sidebar: the config getActionItems read, <<projectID, serviceID>>
    treeItems,      \* sidebar: the items getChildren returned last, and for which element
    treeOps         \* sidebar: what the item builders issued since the latest call began

fsVars == <<workspaceOpen, zeaburDir, zipExists, config>>
backendVars == <<nProjects, nServices, svcProject, envReady, domains>>
idVars == <<projectID, serviceID, justCreated, environmentID>>
localVars == <<pc, projectID, serviceID, justCreated, environmentID, log, shown, raised, result,
              header>>
deployVars == <<fsVars, backendVars, localVars>>
archiveVars == <<gitignore, globbed, archive, walked, archiveIg, zipEntries, sep>>
nameVars == <<title, convertedName, randomString, domainRequest, nameStage>>
authVars == <<token, tokenWriter, sidebarPc, loginItems, sidebarNotice>>
sessionVars == <<isDeploying>>
treeVars == <<treePc, treeID, treeItems, treeOps>>
otherVars == <<archiveVars, nameVars, authVars, sessionVars, treeVars>>
notArchiveVars == <<deployVars, nameVars, authVars, sessionVars, treeVars>>
notNameVars == <<deployVars, archiveVars, authVars, sessionVars, treeVars>>
notAuthVars == <<deployVars, archiveVars, nameVars, sessionVars, treeVars>>
vars == <<workspaceOpen, zeaburDir, zipExists, config, nProjects, nServices,
          svcProject, envReady, domains, pc, projectID, serviceID, justCreated,
          environmentID, log, shown, raised, result, header,
          gitignore, globbed, archive, walked, archiveIg, zipEntries, sep,
          title, convertedName, randomString, domainRequest, nameStage,
          token, tokenWriter, sidebarPc, loginItems, sidebarNotice, isDeploying,
          treePc, treeID, treeItems, treeOps>>

NoConfig == [exists |-> FALSE, projectID |-> NoID, serviceID |-> NoID]
PartialConfig == [exists |-> TRUE, projectID |-> 1, serviceID |-> NoID]
PartialConfigNoProject == [exists |-> TRUE, projectID |-> NoID, serviceID |-> 1]

Entry(op, res, a, b) == [op |-> op, res |-> res, arg |-> <<a, b>>]

\* A variant of HasIdentity that reads a key the record does not have.
HasIdentityWrongKey(cfg) == FALSE

\* if (config.projectID && config.serviceID), after fs.existsSync(configPath)
HasIdentity(cfg) == cfg.exists /\ cfg.projectID # NoID /\ cfg.serviceID # NoID

\* A variant of ReuseIdentity that reports the stored pair as just created.
ReuseIdentityAsCreated(cfg) ==
    [projectID |-> cfg.projectID, serviceID |-> cfg.serviceID, justCreated |-> TRUE]

\* return { projectID: config.projectID, serviceID: config.serviceID, justCreated: false }
ReuseIdentity(cfg) ==
    [projectID |-> cfg.projectID, serviceID |-> cfg.serviceID, justCreated |-> FALSE]

\* A variant of WriteConfig that leaves the serviceID out of the record.
WriteConfigProjectOnly(p, s) == [exists |-> TRUE, projectID |-> p, serviceID |-> NoID]

\* A variant of WriteConfig that writes no record.
WriteConfigSkipped(p, s) == [exists |-> FALSE, projectID |-> NoID, serviceID |-> NoID]

\* A variant of WriteConfig that writes each identifier under the other's key.
WriteConfigSwapped(p, s) == [exists |-> TRUE, projectID |-> s, serviceID |-> p]

\* fs.writeFileSync(configPath, JSON.stringify({ projectID, serviceID }, null, 2))
WriteConfig(p, s) == [exists |-> TRUE, projectID |-> p, serviceID |-> s]

\* A variant of Notices without the check of errors[0].message.
NoticesNone(o) == <<>>

\* graphqlRequest: the extra notification on a 'Permission denied' answer
Notices(o) == IF o = "denied" THEN <<ClaimedNotice>> ELSE <<>>

\* A variant of ErrorOf with a fixed text in place of the backend's.
ErrorOfFixedText(o) == NetworkError

\* throw new Error(response.errors[0].message), or the rejected fetch rethrown
ErrorOf(o) ==
    CASE o = "denied" -> PermissionDenied
      [] o = "error" -> BackendError
      [] o = "nodata" -> TypeError
      [] OTHER -> NetworkError

\* the catch block of deploy(): vscode.window.showErrorMessage(`${error}`); throw error
DeployCatch(e) == <<e>>

\* the two catch blocks of the command handler, each with showErrorMessage
CommandCatch(e) == <<e, e>>

\* A variant of UnlinkSync that leaves the file where it is.
UnlinkSyncSkipped(exists) == exists

\* finally { fs.unlinkSync(outputPath) }: the file is gone afterwards
UnlinkSync(exists) == FALSE

\* fs.unlinkSync throws when the file is not there
UnlinkError(exists) == IF exists THEN <<>> ELSE <<ENOENT>>

\* environments(projectID)[0]._id: one environment per project
EnvOf(p) == p

\* Nothing has been packaged.
ArchiveIdle ==
    /\ gitignore = <<>>
    /\ globbed = 0
    /\ archive = {}
    /\ walked = 0
    /\ archiveIg = {}
    /\ zipEntries = <<>>
    /\ sep = "/"

\* No request for a domain has been built.
NoRequest == [domain |-> <<>>, isGenerated |-> FALSE]

\* No name has been derived.
NamesIdle ==
    /\ title = <<>>
    /\ convertedName = <<>>
    /\ randomString = <<>>
    /\ domainRequest = NoRequest
    /\ nameStage = "title"

\* globalState.get('zeaburApiKey') when no key is stored
NoToken == "undefined"

\* if (token), if (apiKey): undefined and the empty string are falsy
Truthy(s) == s \notin {"undefined", ""}

\* The requests of a deploy: the promises of graphqlRequest and the upload fetch.
RemoteOps == {"createTemporaryProject", "createService", "getEnvironment", "upload",
              "environments", "domains", "addDomain"}

\* const headers = {}: no Authorization key
NoHeader == <<>>

\* A variant of AuthorizationHeader that sets the header whatever the key is.
AuthorizationHeaderAlways(t) == <<"Bearer", t>>

\* const token = getToken(context);
\* if (token) { headers["Authorization"] = `Bearer ${token}` }
AuthorizationHeader(t) == IF Truthy(t) THEN <<"Bearer", t>> ELSE NoHeader

\* The sidebar has not been rendered and nothing has updated the key.
SidebarIdle ==
    /\ tokenWriter = "none"
    /\ sidebarPc = "idle"
    /\ loginItems = <<>>
    /\ sidebarNotice = FALSE
    /\ treePc = "idle"
    /\ treeID = <<NoID, NoID>>
    /\ treeItems = [of |-> "none", items |-> <<>>]
    /\ treeOps = {}

\* No key is stored; the flag of the upload-session variant is as declared.
AuthIdle == token = NoToken /\ SidebarIdle /\ isDeploying = FALSE

\* The workspace before the first deploy.
InitFiles ==
    /\ workspaceOpen \in BOOLEAN
    /\ zeaburDir \in BOOLEAN
    /\ config \in {NoConfig} \cup (IF zeaburDir THEN {PartialConfig, PartialConfigNoProject} ELSE {})

\* The backend before the first deploy, and no handler running.
InitDeploy ==
    /\ zipExists = FALSE
    /\ nProjects = 0
    /\ nServices = 0
    /\ svcProject = [s \in ServiceIDs |-> NoID]
    /\ envReady = {}
    /\ domains = [s \in ServiceIDs |-> 0]
    /\ pc = [i \in Inv |-> "idle"]
    /\ projectID = [i \in Inv |-> NoID]
    /\ serviceID = [i \in Inv |-> NoID]
    /\ justCreated = [i \in Inv |-> FALSE]
    /\ environmentID = [i \in Inv |-> NoID]
    /\ log = [i \in Inv |-> <<>>]
    /\ shown = [i \in Inv |-> <<>>]
    /\ raised = [i \in Inv |-> <<>>]
    /\ result = [i \in Inv |-> NoResult]
    /\ header = [i \in Inv |-> NoHeader]

Init == InitFiles /\ InitDeploy /\ ArchiveIdle /\ NamesIdle /\ AuthIdle

\* A variant of AfterProvisioning that waits whether or not the project is new.
AfterProvisioningAlwaysWait(created) == "wait"

\* if (justCreated) { await new Promise(resolve => setTimeout(resolve, 3000)) }
\* const environmentID = await getEnvironment(projectID, context)
AfterProvisioning(created) == IF created THEN "wait" ELSE "getEnvironment"

\* The headers of a request are built from the stored key in the step that
\* issues the request, right before its fetch.
SetHeader(i) ==
    header' = [header EXCEPT ![i] =
                 IF pc'[i] \in RemoteOps THEN AuthorizationHeader(token) ELSE @]

\* The finally block of the command handler, as a log entry.
UnlinkEntry(exists) == Entry("unlink", IF exists THEN "ok" ELSE "throw", 0, 0)

\* No handler has just ended.
NoneDone == \A j \in Inv : pc[j] # "done"

\* An error e reaches the command handler after the operations `entries`:
\* `reports` are the texts the catch blocks show, then the finally block
\* removes the archive and the handler ends.
Abort(i, entries, e, notices, reports) ==
    /\ log' = [log EXCEPT ![i] = @ \o entries \o <<UnlinkEntry(zipExists)>>]
    /\ shown' = [shown EXCEPT ![i] = @ \o notices \o reports]
    /\ raised' = [raised EXCEPT ![i] = Append(@, e) \o UnlinkError(zipExists)]
    /\ zipExists' = UnlinkSync(zipExists)
    /\ pc' = [pc EXCEPT ![i] = "done"]
    /\ result' = [result EXCEPT ![i] = NoResult]

\* deploy() returned { projectID, domain } after the operations `entries`: the
\* dashboard is opened, the finally block removes the archive, the handler ends.
Finish(i, entries, notices, p, s, k) ==
    /\ log' = [log EXCEPT ![i] = @ \o entries \o <<UnlinkEntry(zipExists)>>]
    /\ shown' = [shown EXCEPT ![i] = @ \o notices]
    /\ raised' = [raised EXCEPT ![i] = @ \o UnlinkError(zipExists)]
    /\ zipExists' = UnlinkSync(zipExists)
    /\ pc' = [pc EXCEPT ![i] = "done"]
    /\ result' = [result EXCEPT ![i] = <<p, s, k>>]

\* The command handler up to its first await: the workspace check, mkdir of
\* .zeabur, and compressDirectory's executor (createWriteStream, .gitignore).
Start(i) ==
    /\ NoneDone
    /\ pc[i] = "idle"
    /\ header' = [header EXCEPT ![i] = NoHeader]
    /\ projectID' = [projectID EXCEPT ![i] = NoID]
    /\ serviceID' = [serviceID EXCEPT ![i] = NoID]
    /\ justCreated' = [justCreated EXCEPT ![i] = FALSE]
    /\ environmentID' = [environmentID EXCEPT ![i] = NoID]
    /\ UNCHANGED <<otherVars, workspaceOpen, config, backendVars>>
    /\ IF ~workspaceOpen
       THEN /\ shown' = [shown EXCEPT ![i] = <<NoWorkspace>>]
            /\ raised' = [raised EXCEPT ![i] = <<>>]
            /\ log' = [log EXCEPT ![i] = <<>>]
            /\ result' = [result EXCEPT ![i] = NoResult]
            /\ pc' = [pc EXCEPT ![i] = "done"]
            /\ UNCHANGED <<zeaburDir, zipExists>>
       ELSE /\ zeaburDir' = TRUE
            /\ \E gitignoreOk \in BOOLEAN :
                 IF gitignoreOk
                 THEN /\ zipExists' = TRUE
                      /\ log' = [log EXCEPT ![i] = <<Entry("createWriteStream", "ok", 0, 0)>>]
                      /\ shown' = [shown EXCEPT ![i] = <<>>]
                      /\ raised' = [raised EXCEPT ![i] = <<>>]
                      /\ result' = [result EXCEPT ![i] = NoResult]
                      /\ pc' = [pc EXCEPT ![i] = "compress"]
                 ELSE /\ zipExists' = UnlinkSync(TRUE)
                      /\ log' = [log EXCEPT ![i] =
                             <<Entry("createWriteStream", "ok", 0, 0),
                               Entry("unlink", "ok", 0, 0)>>]
                      /\ shown' = [shown EXCEPT ![i] = CommandCatch(GitignoreError)]
                      /\ raised' = [raised EXCEPT ![i] = <<GitignoreError>>]
                      /\ result' = [result EXCEPT ![i] = NoResult]
                      /\ pc' = [pc EXCEPT ![i] = "done"]

\* compressDirectory settles: output 'close' resolves it, archive 'error'
\* rejects it.  On success fs.promises.readFile(outputPath) is started.
CompressDirectoryDone(i) ==
    /\ NoneDone
    /\ pc[i] = "compress"
    /\ UNCHANGED <<otherVars, workspaceOpen, zeaburDir, config, backendVars, idVars>>
    /\ \E ok \in BOOLEAN :
         IF ok
         THEN /\ log' = [log EXCEPT ![i] = Append(@, Entry("compress", "ok", 0, 0))]
              /\ pc' = [pc EXCEPT ![i] = "readFile"]
              /\ UNCHANGED <<zipExists, shown, raised, result>>
         ELSE Abort(i, <<Entry("compress", "throw", 0, 0)>>, ArchiveError,
                    <<>>, CommandCatch(ArchiveError))
    /\ SetHeader(i)

\* readFile settles; then deployToZeabur, deploy and the synchronous head of
\* getOrCreateProjectAndService run: with an identity record the first
\* environments query is issued, without one createTemporaryProject is.
ReadFileDone(i) ==
    /\ NoneDone
    /\ pc[i] = "readFile"
    /\ UNCHANGED <<otherVars, workspaceOpen, zeaburDir, config, backendVars, environmentID>>
    /\ IF ~zipExists
       THEN /\ Abort(i, <<Entry("readFile", "throw", 0, 0)>>, ENOENT,
                     <<>>, CommandCatch(ENOENT))
            /\ UNCHANGED <<projectID, serviceID, justCreated>>
       ELSE /\ UNCHANGED <<zipExists, shown, raised, result>>
            /\ IF HasIdentity(config)
               THEN /\ projectID' = [projectID EXCEPT ![i] = ReuseIdentity(config).projectID]
                    /\ serviceID' = [serviceID EXCEPT ![i] = ReuseIdentity(config).serviceID]
                    /\ justCreated' = [justCreated EXCEPT ![i] = ReuseIdentity(config).justCreated]
                    /\ log' = [log EXCEPT ![i] = @ \o
                           <<Entry("readFile", "ok", 0, 0),
                             Entry("readConfig", "hit", config.projectID, config.serviceID)>>]
                    /\ pc' = [pc EXCEPT ![i] = AfterProvisioning(ReuseIdentity(config).justCreated)]
               ELSE /\ log' = [log EXCEPT ![i] = @ \o
                           <<Entry("readFile", "ok", 0, 0),
                             Entry("readConfig", "miss", config.projectID, config.serviceID)>>]
                    /\ pc' = [pc EXCEPT ![i] = "createTemporaryProject"]
                    /\ UNCHANGED <<projectID, serviceID, justCreated>>
    /\ SetHeader(i)

\* createTemporaryProject is answered; on data createService is issued.
CreateTemporaryProjectDone(i) ==
    /\ NoneDone
    /\ pc[i] = "createTemporaryProject"
    /\ UNCHANGED <<otherVars, workspaceOpen, zeaburDir, config, nServices, svcProject,
                   envReady, domains, serviceID, justCreated, environmentID>>
    /\ \E o \in Outcomes :
         IF o = "ok"
         THEN /\ nProjects < MaxProjects
              /\ nProjects' = nProjects + 1
              /\ projectID' = [projectID EXCEPT ![i] = nProjects + 1]
              /\ log' = [log EXCEPT ![i] =
                     Append(@, Entry("createTemporaryProject", o, nProjects + 1, 0))]
              /\ pc' = [pc EXCEPT ![i] = "createService"]
              /\ UNCHANGED <<zipExists, shown, raised, result>>
         ELSE /\ Abort(i, <<Entry("createTemporaryProject", o, 0, 0)>>, ErrorOf(o),
                       Notices(o), DeployCatch(ErrorOf(o)) \o CommandCatch(ErrorOf(o)))
              /\ UNCHANGED <<nProjects, projectID>>
    /\ SetHeader(i)

\* createService is answered; on data the identity record is written and
\* getOrCreateProjectAndService returns; deploy() starts its 3 s timer.
CreateServiceDone(i) ==
    /\ NoneDone
    /\ pc[i] = "createService"
    /\ UNCHANGED <<otherVars, workspaceOpen, nProjects, envReady, domains, projectID, environmentID>>
    /\ \E o \in Outcomes :
         IF o = "ok"
         THEN /\ nServices < MaxProjects
              /\ nServices' = nServices + 1
              /\ svcProject' = [svcProject EXCEPT ![nServices + 1] = projectID[i]]
              /\ serviceID' = [serviceID EXCEPT ![i] = nServices + 1]
              /\ zeaburDir' = TRUE
              /\ config' = WriteConfig(projectID[i], nServices + 1)
              /\ justCreated' = [justCreated EXCEPT ![i] = TRUE]
              /\ log' = [log EXCEPT ![i] = @ \o
                     <<Entry("createService", o, projectID[i], nServices + 1),
                       Entry("writeConfig", "ok", projectID[i], nServices + 1)>>]
              /\ pc' = [pc EXCEPT ![i] = AfterProvisioning(TRUE)]
              /\ UNCHANGED <<zipExists, shown, raised, result>>
         ELSE /\ Abort(i, <<Entry("createService", o, projectID[i], 0)>>, ErrorOf(o),
                       Notices(o), DeployCatch(ErrorOf(o)) \o CommandCatch(ErrorOf(o)))
              /\ UNCHANGED <<zeaburDir, config, nServices, svcProject, serviceID, justCreated>>
    /\ SetHeader(i)

\* The backend creates the environment of a project some time after the project.
EnvironmentCreated(p) ==
    /\ NoneDone
    /\ p <= nProjects
    /\ p \notin envReady
    /\ envReady' = envReady \cup {p}
    /\ UNCHANGED <<otherVars, fsVars, nProjects, nServices, svcProject, domains, localVars>>

\* The timer of deploy() fires; getEnvironment's query is issued.
WaitDone(i) ==
    /\ NoneDone
    /\ pc[i] = "wait"
    /\ log' = [log EXCEPT ![i] = Append(@, Entry("wait", "ok", 0, 0))]
    /\ pc' = [pc EXCEPT ![i] = "getEnvironment"]
    /\ UNCHANGED <<otherVars, fsVars, backendVars, idVars, shown, raised, result>>
    /\ SetHeader(i)

\* A variant of GetEnvironmentError without the check of the list.
GetEnvironmentErrorNoCheck(o) == ErrorOf(o)

\* What getEnvironment throws: the backend's text without data, and
\* 'No environments found for the project' when data.environments is
\* missing or empty.
GetEnvironmentError(o) == IF o = "ok" THEN NoEnvironments ELSE ErrorOf(o)

\* getEnvironment's query is answered; with an environment the upload is issued.
GetEnvironmentDone(i) ==
    /\ NoneDone
    /\ pc[i] = "getEnvironment"
    /\ UNCHANGED <<otherVars, workspaceOpen, zeaburDir, config, backendVars, projectID,
                   serviceID, justCreated>>
    /\ \E o \in Outcomes :
         IF o = "ok" /\ projectID[i] \in envReady
         THEN /\ environmentID' = [environmentID EXCEPT ![i] = EnvOf(projectID[i])]
              /\ log' = [log EXCEPT ![i] =
                     Append(@, Entry("getEnvironment", o, projectID[i], EnvOf(projectID[i])))]
              /\ pc' = [pc EXCEPT ![i] = "upload"]
              /\ UNCHANGED <<zipExists, shown, raised, result>>
         ELSE /\ Abort(i, <<Entry("getEnvironment", o, projectID[i], 0)>>,
                       GetEnvironmentError(o), Notices(o),
                       DeployCatch(GetEnvironmentError(o))
                         \o CommandCatch(GetEnvironmentError(o)))
              /\ UNCHANGED environmentID
    /\ SetHeader(i)

\* A variant of UploadAccepted that goes on after an ok response only.
UploadAcceptedOkOnly(o) == o = "ok"

\* await fetch(...): the response is not looked at, a rejected fetch throws
UploadAccepted(o) == o # "throw"

\* The deploy endpoint answers, or the fetch rejects.  Any response, whatever
\* its status, lets deploy() go on: getDomainOfService issues its
\* environments query.
UploadDone(i) ==
    /\ NoneDone
    /\ pc[i] = "upload"
    /\ UNCHANGED <<otherVars, workspaceOpen, zeaburDir, config, backendVars, idVars>>
    /\ \E o \in UploadOutcomes :
         IF UploadAccepted(o)
         THEN /\ log' = [log EXCEPT ![i] =
                     Append(@, Entry("upload", o, projectID[i], serviceID[i]))]
              /\ pc' = [pc EXCEPT ![i] = "environments"]
              /\ UNCHANGED <<zipExists, shown, raised, result>>
         ELSE Abort(i, <<Entry("upload", o, projectID[i], serviceID[i])>>, NetworkError,
                    <<>>, DeployCatch(NetworkError) \o CommandCatch(NetworkError))
    /\ SetHeader(i)

\* What getDomainOfService throws on the answer to its environments query:
\* without data the read of data.environments is a TypeError.
EnvironmentsError(o) == IF o = "ok" THEN NoEnvironments
                        ELSE IF o = "throw" THEN NetworkError ELSE TypeError

\* What getDomainOfService throws on the answer to its domains query.
DomainsError(o) == IF o = "ok" THEN NoDomain ELSE ErrorOf(o)

\* A variant of CatchTarget that looks the domain up again.
CatchTargetRetry(e) == "environments"

\* A variant of CatchTarget that sends the archive again.
CatchTargetUpload(e) == "upload"

\* The catch block around getDomainOfService in deploy(): whatever the error
\* was, it is dropped and createDomain is called.
CatchTarget(e) == "addDomain"

\* getDomainOfService's environments query is answered: with an environment
\* the domains query is issued; any error is caught in deploy(), which then
\* issues addDomain.
LookupEnvironmentsDone(i) ==
    /\ NoneDone
    /\ pc[i] = "environments"
    /\ UNCHANGED <<otherVars, fsVars, backendVars, idVars, result>>
    /\ \E o \in Outcomes :
         /\ shown' = [shown EXCEPT ![i] = @ \o Notices(o)]
         /\ log' = [log EXCEPT ![i] = Append(@, Entry("environments", o, projectID[i], 0))]
         /\ IF o = "ok" /\ projectID[i] \in envReady
            THEN /\ pc' = [pc EXCEPT ![i] = "domains"]
                 /\ UNCHANGED raised
            ELSE /\ raised' = [raised EXCEPT ![i] = Append(@, EnvironmentsError(o))]
                 /\ pc' = [pc EXCEPT ![i] = CatchTarget(EnvironmentsError(o))]
    /\ SetHeader(i)

\* service(_id).domains(environmentID): the domains bound to a service, in
\* the order they were created, each named by its rank.
DomainsOf(s) == [k \in 1..domains[s] |-> k]

\* A variant of FirstDomain that takes the newest domain.
LastDomain(list) == list[Len(list)]

\* return domainData.service.domains[0].domain
FirstDomain(list) == list[1]

\* getDomainOfService's domains query is answered: with a non-empty list
\* deploy() returns its first domain; any error is caught in deploy(), which
\* then issues addDomain.
LookupDomainsDone(i) ==
    /\ NoneDone
    /\ pc[i] = "domains"
    /\ UNCHANGED <<otherVars, workspaceOpen, zeaburDir, config, backendVars, idVars>>
    /\ \E o \in Outcomes :
         IF o = "ok" /\ domains[serviceID[i]] > 0
         THEN Finish(i, <<Entry("domains", o, serviceID[i], domains[serviceID[i]])>>,
                     <<>>, projectID[i], serviceID[i], FirstDomain(DomainsOf(serviceID[i])))
         ELSE /\ shown' = [shown EXCEPT ![i] = @ \o Notices(o)]
              /\ log' = [log EXCEPT ![i] =
                     Append(@, Entry("domains", o, serviceID[i],
                                     IF o = "ok" THEN domains[serviceID[i]] ELSE 0))]
              /\ raised' = [raised EXCEPT ![i] = Append(@, DomainsError(o))]
              /\ pc' = [pc EXCEPT ![i] = CatchTarget(DomainsError(o))]
              /\ UNCHANGED <<zipExists, result>>
    /\ SetHeader(i)

\* addDomain is answered: on data deploy() returns the created domain, else
\* the error leaves deploy().  The log entry carries the number of domains the
\* service had when the call was answered.
AddDomainDone(i) ==
    /\ NoneDone
    /\ pc[i] = "addDomain"
    /\ UNCHANGED <<otherVars, workspaceOpen, zeaburDir, config, nProjects, nServices,
                   svcProject, envReady, idVars>>
    /\ \E o \in Outcomes :
         IF o = "ok"
         THEN /\ domains[serviceID[i]] < MaxDomains
              /\ domains' = [domains EXCEPT ![serviceID[i]] = @ + 1]
              /\ Finish(i, <<Entry("addDomain", o, serviceID[i], domains[serviceID[i]])>>,
                        <<>>, projectID[i], serviceID[i], domains[serviceID[i]] + 1)
         ELSE /\ Abort(i, <<Entry("addDomain", o, serviceID[i], domains[serviceID[i]])>>,
                       ErrorOf(o), Notices(o),
                       DeployCatch(ErrorOf(o)) \o CommandCatch(ErrorOf(o)))
              /\ UNCHANGED domains
    /\ SetHeader(i)

\* The promise of a handler that ended is dropped, and its locals with it:
\* nothing of an invocation is kept in memory, so that a restart of the
\* extension host between two deploys changes nothing of the state either.
\* It is the next thing that happens once a handler has ended.
Return(i) ==
    /\ pc[i] = "done"
    /\ pc' = [pc EXCEPT ![i] = "idle"]
    /\ header' = [header EXCEPT ![i] = NoHeader]
    /\ projectID' = [projectID EXCEPT ![i] = NoID]
    /\ serviceID' = [serviceID EXCEPT ![i] = NoID]
    /\ justCreated' = [justCreated EXCEPT ![i] = FALSE]
    /\ environmentID' = [environmentID EXCEPT ![i] = NoID]
    /\ log' = [log EXCEPT ![i] = <<>>]
    /\ shown' = [shown EXCEPT ![i] = <<>>]
    /\ raised' = [raised EXCEPT ![i] = <<>>]
    /\ result' = [result EXCEPT ![i] = NoResult]
    /\ UNCHANGED <<otherVars, fsVars, backendVars>>

Next ==
    \/ \E i \in Inv : Start(i)
    \/ \E i \in Inv : CompressDirectoryDone(i)
    \/ \E i \in Inv : ReadFileDone(i)
    \/ \E i \in Inv : CreateTemporaryProjectDone(i)
    \/ \E i \in Inv : CreateServiceDone(i)
    \/ \E p \in ProjectIDs : EnvironmentCreated(p)
    \/ \E i \in Inv : WaitDone(i)
    \/ \E i \in Inv : GetEnvironmentDone(i)
    \/ \E i \in Inv : UploadDone(i)
    \/ \E i \in Inv : LookupEnvironmentsDone(i)
    \/ \E i \in Inv : LookupDomainsDone(i)
    \/ \E i \in Inv : AddDomainDone(i)
    \/ \E i \in Inv : Return(i)

Spec == Init /\ [][Next]_vars

\* No deploy is pending.
Quiet == \A j \in Inv : pc[j] = "idle"

\* The deploys run one after the other: a deploy starts only when none is pending.
NextSeq ==
    \/ \E i \in Inv : Quiet /\ Start(i)
    \/ \E i \in Inv : CompressDirectoryDone(i)
    \/ \E i \in Inv : ReadFileDone(i)
    \/ \E i \in Inv : CreateTemporaryProjectDone(i)
    \/ \E i \in Inv : CreateServiceDone(i)
    \/ \E p \in ProjectIDs : EnvironmentCreated(p)
    \/ \E i \in Inv : WaitDone(i)
    \/ \E i \in Inv : GetEnvironmentDone(i)
    \/ \E i \in Inv : UploadDone(i)
    \/ \E i \in Inv : LookupEnvironmentsDone(i)
    \/ \E i \in Inv : LookupDomainsDone(i)
    \/ \E i \in Inv : AddDomainDone(i)
    \/ \E i \in Inv : Return(i)

SpecSeq == Init /\ [][NextSeq]_vars

(***************************************************************************)
(* Packaging: which files of the workspace compressDirectory adds to the   *)
(* archive.  A path is the sequence of its segments, the last one the file *)
(* name.  extension.ts hands a list of glob patterns to archive.glob; the  *)
(* variant with the ignore library walks the tree itself and asks          *)
(* ig.ignores for every entry.                                             *)
(***************************************************************************)

\* Number of lines of the .gitignore file.
MaxLines == 2

\* The regular files of the workspace, in the order they are met.
Files ==
    << <<"a.txt">>,
       <<"node_modules", "m.js">>,
       <<".git", "HEAD">>,
       <<".zeabur", "config.json">>,
       <<".zeabur", "project.zip">>,
       <<"venv", "x.py">>,
       <<"env", "x.py">>,
       <<".vscode", "s.json">>,
       <<"build", "output.txt">>,
       <<"build", "sub", "deep.txt">>,
       <<"src", "main.ts">>,
       <<"src", "node_modules", "m.js">> >>

\* The directory names of the workspace that begin with a dot.
DotNames == {".git", ".zeabur", ".vscode"}

\* Lines of a .gitignore: a blank line, a comment, a directory pattern
\* `name/`, a pattern `name` without a slash, or a negation `!name/`.
GitignoreLines ==
    { [kind |-> "blank", name |-> ""],
      [kind |-> "comment", name |-> ""],
      [kind |-> "dir", name |-> "build"],
      [kind |-> "file", name |-> "a.txt"],
      [kind |-> "negation", name |-> "node_modules"],
      [kind |-> "negation", name |-> ".vscode"],
      [kind |-> "negation", name |-> "env"] }

GitignoreContents == UNION {[1..n -> GitignoreLines] : n \in 0..MaxLines}

\* let ignorePatterns = ['**/node_modules/**', '**/.git/**', '**/.zeabur/**', '**/venv/**']
BuiltinPatterns ==
    << [form |-> "subtree", name |-> "node_modules"],
       [form |-> "subtree", name |-> ".git"],
       [form |-> "subtree", name |-> ".zeabur"],
       [form |-> "subtree", name |-> "venv"] >>

\* .filter(line => line.trim() && !line.startsWith('#') && !line.includes('!'))
KeptLine(line) == line.kind \in {"dir", "file"}

\* A kept line is handed to the glob as it is written: `name/`, or `name`.
AsPattern(line) ==
    [form |-> IF line.kind = "file" THEN "file" ELSE "line", name |-> line.name]

RECURSIVE FilterLines(_)
FilterLines(lines) ==
    IF lines = <<>> THEN <<>>
    ELSE (IF KeptLine(Head(lines)) THEN <<AsPattern(Head(lines))>> ELSE <<>>)
           \o FilterLines(Tail(lines))

\* ignorePatterns.concat(gitignoreContent.split('\n').filter(...))
IgnorePatterns(lines) == BuiltinPatterns \o FilterLines(lines)

\* A glob pattern against the relative path of a file: `**/name/**` matches
\* every file below a directory called name, at any depth; `name/` matches
\* the directory name itself and no file; `name` matches the file of that
\* name in the root.
GlobMatches(pattern, path) ==
    \/ /\ pattern.form = "subtree"
       /\ \E k \in 1..(Len(path) - 1) : path[k] = pattern.name
    \/ /\ pattern.form = "file"
       /\ path = <<pattern.name>>

\* archive.glob('**/*', { cwd, ignore: ignorePatterns, dot: true }): with
\* dot: true every file of the tree matches `**/*`.
GlobIgnored(path, patterns) ==
    \E k \in 1..Len(patterns) : GlobMatches(patterns[k], path)

\* ignore().add(['node_modules/', '.git/', '.zeabur/', 'venv/', 'env/', '.*/'])
BuiltinRules ==
    << [neg |-> FALSE, name |-> "node_modules", dir |-> TRUE],
       [neg |-> FALSE, name |-> ".git", dir |-> TRUE],
       [neg |-> FALSE, name |-> ".zeabur", dir |-> TRUE],
       [neg |-> FALSE, name |-> "venv", dir |-> TRUE],
       [neg |-> FALSE, name |-> "env", dir |-> TRUE],
       [neg |-> FALSE, name |-> ".*", dir |-> TRUE] >>

\* ig.add(gitignoreContent): blank lines and comments make no rule, `!name/`
\* makes a negative rule, and a rule whose line ends with a slash matches
\* directories only.
RECURSIVE ParseLines(_)
ParseLines(lines) ==
    IF lines = <<>> THEN <<>>
    ELSE (IF Head(lines).kind \in {"dir", "file", "negation"}
          THEN <<[neg |-> Head(lines).kind = "negation", name |-> Head(lines).name,
                  dir |-> Head(lines).kind # "file"]>>
          ELSE <<>>)
           \o ParseLines(Tail(lines))

\* The rules of ig after both add calls.
IgRules(lines) == BuiltinRules \o ParseLines(lines)

\* A rule `name/` or `name` against a directory name: rules without an inner
\* slash match at any depth, `.*` matches every name that begins with a dot.
RuleMatches(rule, dir) ==
    \/ rule.name = dir
    \/ rule.name = ".*" /\ dir \in DotNames

\* The last rule that matches a directory decides: ignored unless negative.
DirIgnored(rules, dir) ==
    LET M == {k \in 1..Len(rules) : RuleMatches(rules[k], dir)}
    IN  /\ M # {}
        /\ ~rules[CHOOSE k \in M : \A l \in M : l <= k].neg

\* The last rule that matches a path given without a trailing slash decides;
\* the rules for directories do not match such a path.
NameIgnored(rules, name) ==
    LET M == {k \in 1..Len(rules) : ~rules[k].dir /\ RuleMatches(rules[k], name)}
    IN  /\ M # {}
        /\ ~rules[CHOOSE k \in M : \A l \in M : l <= k].neg

\* A variant of Ignores that does not look at the parent directories.
IgnoresNameOnly(rules, path) == NameIgnored(rules, path[Len(path)])

\* ig.ignores(normalizedPath): a path is ignored when one of its parent
\* directories is, or when the rules ignore the path itself, which is given
\* without a trailing slash.
Ignores(rules, path) ==
    \/ \E k \in 1..(Len(path) - 1) : DirIgnored(rules, path[k])
    \/ NameIgnored(rules, path[Len(path)])

\* The directories above a file, outermost first.
DirsOf(f) == [k \in 1..(Len(f) - 1) |-> SubSeq(f, 1, k)]

\* The directories above the n-th file that no earlier file is in.
NewDirs(n) ==
    SelectSeq(DirsOf(Files[n]),
              LAMBDA d : \A m \in 1..(n - 1) :
                           ~(Len(Files[m]) > Len(d) /\ SubSeq(Files[m], 1, Len(d)) = d))

\* readdir(dir, { withFileTypes: true }), directory by directory: the entries
\* of the tree in the order the walk meets them, a directory before what is
\* in it.
RECURSIVE Listing(_)
Listing(n) ==
    IF n = 0 THEN <<>>
    ELSE Listing(n - 1)
           \o [k \in 1..Len(NewDirs(n)) |-> [path |-> NewDirs(n)[k], dir |-> TRUE]]
           \o <<[path |-> Files[n], dir |-> FALSE]>>

Entries == Listing(Len(Files))

\* path.join(base, entry.name), down from the root: a string is the sequence
\* of its segments and separators, and path.join puts the separator of the
\* platform between the segments.
RECURSIVE RelativePath(_, _)
RelativePath(path, s) ==
    IF Len(path) = 1 THEN <<path[1]>>
    ELSE RelativePath(SubSeq(path, 1, Len(path) - 1), s) \o <<s, path[Len(path)]>>

\* relativePath.replace(/\\/g, '/')
NormalizedPath(p) == [k \in 1..Len(p) |-> IF p[k] = "\\" THEN "/" ELSE p[k]]

\* The segments of a path written with forward slashes.
Segments(p) == SelectSeq(p, LAMBDA x : x # "/")

\* if (ig.ignores(normalizedPath)) {continue;} for the entry at `path`
EntryIgnored(rules, path, s) ==
    Ignores(rules, Segments(NormalizedPath(RelativePath(path, s))))

\* addFilesRecursively is called for a directory only when the walk did not
\* skip the directory or one above it.
Visited(rules, path, s) ==
    \A k \in 1..(Len(path) - 1) : ~EntryIgnored(rules, SubSeq(path, 1, k), s)

\* A .gitignore has been read and nothing is archived yet.
InitArchive ==
    /\ workspaceOpen = TRUE
    /\ zeaburDir = TRUE
    /\ config = NoConfig
    /\ InitDeploy
    /\ gitignore \in GitignoreContents
    /\ globbed = 0
    /\ archive = {}
    /\ walked = 0
    /\ archiveIg = {}
    /\ zipEntries = <<>>
    /\ sep \in {"/", "\\"}
    /\ NamesIdle
    /\ AuthIdle

\* archive.glob meets the next file and appends it unless a pattern ignores it.
ArchiveGlob ==
    /\ globbed < Len(Files)
    /\ globbed' = globbed + 1
    /\ archive' = IF GlobIgnored(Files[globbed + 1], IgnorePatterns(gitignore))
                  THEN archive
                  ELSE archive \cup {Files[globbed + 1]}
    /\ UNCHANGED <<notArchiveVars, gitignore, walked, archiveIg, zipEntries, sep>>

\* addFilesRecursively meets the next entry of the tree, if the walk gets
\* there: an entry ig ignores is skipped, a directory is walked in turn, and
\* anything else is handed to archive.file under its normalized path.
AddFilesRecursively ==
    /\ walked < Len(Entries)
    /\ walked' = walked + 1
    /\ LET entry == Entries[walked + 1]
           rules == IgRules(gitignore)
       IN  IF /\ Visited(rules, entry.path, sep)
              /\ ~EntryIgnored(rules, entry.path, sep)
              /\ ~entry.dir
           THEN /\ archiveIg' = archiveIg \cup {entry.path}
                /\ zipEntries' = Append(zipEntries,
                       [source |-> entry.path,
                        name |-> NormalizedPath(RelativePath(entry.path, sep))])
           ELSE UNCHANGED <<archiveIg, zipEntries>>
    /\ UNCHANGED <<notArchiveVars, gitignore, globbed, archive, sep>>

NextArchive ==
    \/ ArchiveGlob
    \/ AddFilesRecursively

SpecArchive == InitArchive /\ [][NextArchive]_vars

(***************************************************************************)
(* Naming: the service name derived from the workspace folder's name, and  *)
(* the domain createDomain asks for.  A string is the sequence of its      *)
(* UTF-16 code units, each written as a one-character string.              *)
(***************************************************************************)

\* Length of the folder names tried.
MaxTitle == 3

\* for (let i = 0; i < 6; i++)
SuffixLength == 6

\* The code units a folder name is made of: a lowercase letter, an
\* uppercase letter, a digit, a hyphen, an underscore, a non-ASCII unit.
TitleChars == {"a", "Z", "7", "-", "_", "U+4E2D"}

Titles == UNION {[1..n -> TitleChars] : n \in 0..MaxTitle}

\* [a-zA-Z0-9], over the code units of TitleChars and their lowercase forms
Alphanumeric == {"a", "Z", "z", "7"}

\* A variant of ReplaceChar whose class is [^a-zA-Z0-9_].
ReplaceCharNonWord(c) == IF c \in Alphanumeric \cup {"_"} THEN c ELSE "-"

\* title.replace(/[^a-zA-Z0-9]/g, "-"), one code unit
ReplaceChar(c) == IF c \in Alphanumeric THEN c ELSE "-"

\* .toLowerCase(), one code unit
ToLowerCase(c) == IF c = "Z" THEN "z" ELSE c

\* function convertTitle(title)
ConvertTitle(s) == [k \in 1..Len(s) |-> ToLowerCase(ReplaceChar(s[k]))]

\* const characters = "abcdefghijklmnopqrstuvwxyz"
Characters ==
    <<"a", "b", "c", "d", "e", "f", "g", "h", "i", "j", "k", "l", "m",
      "n", "o", "p", "q", "r", "s", "t", "u", "v", "w", "x", "y", "z">>

\* Math.floor(Math.random() * charactersLength): the values tried
RandomIndexes == {0, Len(Characters) - 1}

\* characters.charAt(index), index counted from 0
CharAt(index) == Characters[index + 1]

\* The optional parameter domainName of createDomain: left out, or given.
Undefined == <<"undefined">>
DomainNames == {Undefined, <<"a", "-", "7">>}

\* A variant of CreateDomainVariables that sends the service name alone.
CreateDomainVariablesPlain(serviceName, domainName, random) ==
    [domain |-> IF domainName = Undefined THEN serviceName ELSE domainName,
     isGenerated |-> TRUE]

\* const variables = { serviceID, environmentID,
\*   domain: domainName ?? `${serviceName + generateRandomString()}`, isGenerated: true }
CreateDomainVariables(serviceName, domainName, random) ==
    [domain |-> IF domainName = Undefined THEN serviceName \o random ELSE domainName,
     isGenerated |-> TRUE]

\* A folder name is given and nothing is derived yet.
InitNames ==
    /\ workspaceOpen = TRUE
    /\ zeaburDir = TRUE
    /\ config = NoConfig
    /\ InitDeploy
    /\ ArchiveIdle
    /\ AuthIdle
    /\ title \in Titles
    /\ convertedName = <<>>
    /\ randomString = <<>>
    /\ domainRequest = NoRequest
    /\ nameStage = "title"

\* deployToZeabur: const convertedName = convertTitle(projectName)
DeployToZeabur ==
    /\ nameStage = "title"
    /\ convertedName' = ConvertTitle(title)
    /\ nameStage' = "converted"
    /\ UNCHANGED <<notNameVars, title, randomString, domainRequest>>

\* One turn of the loop of generateRandomString, called by createDomain when
\* no domainName is given.
GenerateRandomString ==
    /\ nameStage = "converted"
    /\ Len(randomString) < SuffixLength
    /\ \E index \in RandomIndexes : randomString' = Append(randomString, CharAt(index))
    /\ UNCHANGED <<notNameVars, title, convertedName, domainRequest, nameStage>>

\* createDomain builds the variables of addDomain: with a domainName at
\* once, without one when generateRandomString has returned.
CreateDomain ==
    /\ nameStage = "converted"
    /\ \E domainName \in DomainNames :
         /\ domainName = Undefined => Len(randomString) = SuffixLength
         /\ domainName # Undefined => randomString = <<>>
         /\ domainRequest' = CreateDomainVariables(convertedName, domainName, randomString)
         /\ nameStage' = IF domainName = Undefined THEN "generated" ELSE "named"
    /\ UNCHANGED <<notNameVars, title, convertedName, randomString>>

NextNames ==
    \/ DeployToZeabur
    \/ GenerateRandomString
    \/ CreateDomain

SpecNames == InitNames /\ [][NextNames]_vars

(***************************************************************************)
(* The API key: the commands setApiKey and logout, and the User section of *)
(* the sidebar, which asks the backend who the key belongs to.             *)
(***************************************************************************)

\* The keys a user enters.
ApiKeys == {"key1", "key2"}

\* What showInputBox resolves to: undefined when dismissed, the text otherwise.
InputBoxResults == {"undefined", ""} \cup ApiKeys

\* A key may be stored from an earlier session.
InitAuth ==
    /\ InitFiles
    /\ InitDeploy
    /\ ArchiveIdle
    /\ NamesIdle
    /\ token \in {NoToken} \cup ApiKeys
    /\ SidebarIdle
    /\ isDeploying = FALSE

\* zeabur-vscode.setApiKey, from the moment showInputBox resolves.
SetApiKey ==
    /\ \E apiKey \in InputBoxResults :
         IF Truthy(apiKey)
         THEN /\ token' = apiKey
              /\ tokenWriter' = "setApiKey"
         ELSE UNCHANGED <<token, tokenWriter>>
    /\ UNCHANGED <<notAuthVars, sidebarPc, loginItems, sidebarNotice>>

\* zeabur-vscode.logout
Logout ==
    /\ token' = NoToken
    /\ tokenWriter' = "logout"
    /\ UNCHANGED <<notAuthVars, sidebarPc, loginItems, sidebarNotice>>

\* getLoginInformationItems up to its await: with a key the `me` query is
\* issued, without one the Login item is returned.
GetLoginInformationItems ==
    /\ sidebarPc = "idle"
    /\ IF Truthy(token)
       THEN /\ sidebarPc' = "me"
            /\ UNCHANGED loginItems
       ELSE /\ loginItems' = <<"Login to Zeabur">>
            /\ UNCHANGED sidebarPc
    /\ sidebarNotice' = FALSE
    /\ UNCHANGED <<notAuthVars, token, tokenWriter>>

\* The `me` query is answered: with data the user's name and mail are
\* listed; on any error the catch block removes the stored key.
GetLoginInformationItemsDone ==
    /\ sidebarPc = "me"
    /\ sidebarPc' = "idle"
    /\ \E o \in Outcomes :
         /\ sidebarNotice' = (Notices(o) # <<>>)
         /\ IF o = "ok"
            THEN /\ loginItems' = <<"Username", "Email", "Logout">>
                 /\ UNCHANGED <<token, tokenWriter>>
            ELSE /\ loginItems' = <<"Logout">>
                 /\ token' = NoToken
                 /\ tokenWriter' = "getLoginInformationItems"
    /\ UNCHANGED notAuthVars

\* The deploys run one after the other, next to the key commands and the sidebar.
NextAuth ==
    \/ NextSeq
    \/ SetApiKey
    \/ Logout
    \/ GetLoginInformationItems
    \/ GetLoginInformationItemsDone

SpecAuth == InitAuth /\ [][NextAuth]_vars

\* The deploys next to the key commands alone: the sidebar is not rendered.
NextKeys ==
    \/ NextSeq
    \/ SetApiKey
    \/ Logout

SpecKeys == InitAuth /\ [][NextKeys]_vars

(***************************************************************************)
(* The upload-session variant of the deploy command (part_000): the        *)
(* handler sets the flag isDeploying, compressDirectory walks the tree     *)
(* inside an async promise executor, and deploy(code) creates an upload    *)
(* session, uploads to the presigned URL and prepares the upload.  A       *)
(* response and the reading of its body are taken as one answer.  An error *)
(* thrown inside the async executor rejects the executor's own promise,    *)
(* which nothing awaits: the promise compressDirectory returned is then    *)
(* never settled, and the handler stays where it is.                       *)
(***************************************************************************)

\* Answers of the upload endpoints: an ok response, a response that is not
\* ok, or a rejected fetch.
SessionOutcomes == {"ok", "notok", "throw"}

ReaddirError == "EACCES: permission denied, scandir"
CreateSessionError == "Failed to create upload session"
UploadFileError == "Failed to upload file"
PrepareError == "Failed to prepare upload"

\* The text thrown for an answer that is not ok, or the rejected fetch.
SessionErrorOf(o, text) == IF o = "throw" THEN NetworkError ELSE text

\* finally { fs.unlinkSync(outputPath); isDeploying = false; ... }: the
\* assignment is not reached when unlinkSync throws.
FlagAfterFinally(exists, flag) == IF exists THEN FALSE ELSE flag

\* An error e reaches the command handler: both catch blocks show it, the
\* finally block runs, the handler ends.
SessionAbort(i, entries, e, reports) ==
    /\ log' = [log EXCEPT ![i] = @ \o entries \o <<UnlinkEntry(zipExists)>>]
    /\ shown' = [shown EXCEPT ![i] = @ \o reports]
    /\ raised' = [raised EXCEPT ![i] = Append(@, e) \o UnlinkError(zipExists)]
    /\ zipExists' = UnlinkSync(zipExists)
    /\ isDeploying' = FlagAfterFinally(zipExists, isDeploying)
    /\ pc' = [pc EXCEPT ![i] = "done"]
    /\ result' = [result EXCEPT ![i] = NoResult]

\* The upload-session variant keeps no identity record.
InitSession ==
    /\ workspaceOpen \in BOOLEAN
    /\ zeaburDir \in BOOLEAN
    /\ config = NoConfig
    /\ InitDeploy
    /\ ArchiveIdle
    /\ NamesIdle
    /\ AuthIdle

sessionFrame == <<config, backendVars, idVars, header, archiveVars, nameVars, authVars,
                  treeVars>>

\* The handler up to its first await: the flag, the workspace check, mkdir,
\* and compressDirectory up to the first readdir of addFilesRecursively.
SessionStart(i) ==
    /\ NoneDone
    /\ pc[i] = "idle"
    /\ isDeploying' = TRUE
    /\ UNCHANGED <<workspaceOpen, sessionFrame>>
    /\ result' = [result EXCEPT ![i] = NoResult]
    /\ IF ~workspaceOpen
       THEN /\ shown' = [shown EXCEPT ![i] = <<NoWorkspace>>]
            /\ raised' = [raised EXCEPT ![i] = <<>>]
            /\ log' = [log EXCEPT ![i] = <<>>]
            /\ pc' = [pc EXCEPT ![i] = "done"]
            /\ UNCHANGED <<zeaburDir, zipExists>>
       ELSE /\ zeaburDir' = TRUE
            /\ zipExists' = TRUE
            /\ shown' = [shown EXCEPT ![i] = <<>>]
            /\ \E gitignoreOk \in BOOLEAN :
                 IF gitignoreOk
                 THEN /\ log' = [log EXCEPT ![i] = <<Entry("createWriteStream", "ok", 0, 0)>>]
                      /\ raised' = [raised EXCEPT ![i] = <<>>]
                      /\ pc' = [pc EXCEPT ![i] = "readdir"]
                 ELSE /\ log' = [log EXCEPT ![i] =
                             <<Entry("createWriteStream", "ok", 0, 0),
                               Entry("readGitignore", "throw", 0, 0)>>]
                      /\ raised' = [raised EXCEPT ![i] = <<GitignoreError>>]
                      /\ pc' = [pc EXCEPT ![i] = "pending"]

\* readdir settles: the entries are handed to archive.file and
\* archive.finalize is awaited; a rejection leaves the executor.
SessionReaddirDone(i) ==
    /\ NoneDone
    /\ pc[i] = "readdir"
    /\ UNCHANGED <<fsVars, sessionFrame, isDeploying, shown, result>>
    /\ \E ok \in BOOLEAN :
         IF ok
         THEN /\ log' = [log EXCEPT ![i] = Append(@, Entry("readdir", "ok", 0, 0))]
              /\ pc' = [pc EXCEPT ![i] = "finalize"]
              /\ UNCHANGED raised
         ELSE /\ log' = [log EXCEPT ![i] = Append(@, Entry("readdir", "throw", 0, 0))]
              /\ raised' = [raised EXCEPT ![i] = Append(@, ReaddirError)]
              /\ pc' = [pc EXCEPT ![i] = "pending"]

\* The archive is written out: output 'close' resolves compressDirectory and
\* readFile is started; archive 'error', raised when a file cannot be read,
\* rejects it.
SessionFinalizeDone(i) ==
    /\ NoneDone
    /\ pc[i] = "finalize"
    /\ UNCHANGED <<workspaceOpen, zeaburDir, sessionFrame>>
    /\ \E ok \in BOOLEAN :
         IF ok
         THEN /\ log' = [log EXCEPT ![i] = Append(@, Entry("compress", "ok", 0, 0))]
              /\ pc' = [pc EXCEPT ![i] = "readFile"]
              /\ UNCHANGED <<zipExists, isDeploying, shown, raised, result>>
         ELSE SessionAbort(i, <<Entry("compress", "throw", 0, 0)>>, ArchiveError,
                           CommandCatch(ArchiveError))

\* readFile settles; deploy(code) awaits calculateSHA256.
SessionReadFileDone(i) ==
    /\ NoneDone
    /\ pc[i] = "readFile"
    /\ UNCHANGED <<workspaceOpen, zeaburDir, sessionFrame>>
    /\ IF zipExists
       THEN /\ log' = [log EXCEPT ![i] = Append(@, Entry("readFile", "ok", 0, 0))]
            /\ pc' = [pc EXCEPT ![i] = "calculateSHA256"]
            /\ UNCHANGED <<zipExists, isDeploying, shown, raised, result>>
       ELSE SessionAbort(i, <<Entry("readFile", "throw", 0, 0)>>, ENOENT, CommandCatch(ENOENT))

\* The hash is there; the upload session is requested.
CalculateSHA256Done(i) ==
    /\ NoneDone
    /\ pc[i] = "calculateSHA256"
    /\ log' = [log EXCEPT ![i] = Append(@, Entry("calculateSHA256", "ok", 0, 0))]
    /\ pc' = [pc EXCEPT ![i] = "createSession"]
    /\ UNCHANGED <<fsVars, sessionFrame, isDeploying, shown, raised, result>>

\* A variant of ResponseOk that takes every answered request as accepted.
ResponseOkAnyAnswer(o) == o # "throw"

\* if (!createSessionRes.ok), if (!uploadRes.ok), if (!prepareRes.ok)
ResponseOk(o) == o = "ok"

\* POST /v2/upload is answered; on ok the PUT to the presigned URL is issued.
CreateSessionDone(i) ==
    /\ NoneDone
    /\ pc[i] = "createSession"
    /\ UNCHANGED <<workspaceOpen, zeaburDir, sessionFrame>>
    /\ \E o \in SessionOutcomes :
         IF ResponseOk(o)
         THEN /\ log' = [log EXCEPT ![i] = Append(@, Entry("createSession", o, 0, 0))]
              /\ pc' = [pc EXCEPT ![i] = "uploadFile"]
              /\ UNCHANGED <<zipExists, isDeploying, shown, raised, result>>
         ELSE SessionAbort(i, <<Entry("createSession", o, 0, 0)>>,
                           SessionErrorOf(o, CreateSessionError),
                           DeployCatch(SessionErrorOf(o, CreateSessionError))
                             \o CommandCatch(SessionErrorOf(o, CreateSessionError)))

\* The PUT is answered; on ok the prepare request is issued.
UploadFileDone(i) ==
    /\ NoneDone
    /\ pc[i] = "uploadFile"
    /\ UNCHANGED <<workspaceOpen, zeaburDir, sessionFrame>>
    /\ \E o \in SessionOutcomes :
         IF ResponseOk(o)
         THEN /\ log' = [log EXCEPT ![i] = Append(@, Entry("uploadFile", o, 0, 0))]
              /\ pc' = [pc EXCEPT ![i] = "prepare"]
              /\ UNCHANGED <<zipExists, isDeploying, shown, raised, result>>
         ELSE SessionAbort(i, <<Entry("uploadFile", o, 0, 0)>>,
                           SessionErrorOf(o, UploadFileError),
                           DeployCatch(SessionErrorOf(o, UploadFileError))
                             \o CommandCatch(SessionErrorOf(o, UploadFileError)))

\* The prepare request is answered; on ok deploy returns the url, the handler
\* opens it and its finally block runs.
PrepareDone(i) ==
    /\ NoneDone
    /\ pc[i] = "prepare"
    /\ UNCHANGED <<workspaceOpen, zeaburDir, sessionFrame>>
    /\ \E o \in SessionOutcomes :
         IF ResponseOk(o)
         THEN /\ log' = [log EXCEPT ![i] =
                     @ \o <<Entry("prepare", o, 0, 0), Entry("openExternal", "ok", 0, 0),
                            UnlinkEntry(zipExists)>>]
              /\ raised' = [raised EXCEPT ![i] = @ \o UnlinkError(zipExists)]
              /\ zipExists' = UnlinkSync(zipExists)
              /\ isDeploying' = FlagAfterFinally(zipExists, isDeploying)
              /\ pc' = [pc EXCEPT ![i] = "done"]
              /\ result' = [result EXCEPT ![i] = <<0, 0, 1>>]
              /\ UNCHANGED shown
         ELSE SessionAbort(i, <<Entry("prepare", o, 0, 0)>>,
                           SessionErrorOf(o, PrepareError),
                           DeployCatch(SessionErrorOf(o, PrepareError))
                             \o CommandCatch(SessionErrorOf(o, PrepareError)))

\* The promise of a handler that ended is dropped.
SessionReturn(i) ==
    /\ pc[i] = "done"
    /\ pc' = [pc EXCEPT ![i] = "idle"]
    /\ log' = [log EXCEPT ![i] = <<>>]
    /\ shown' = [shown EXCEPT ![i] = <<>>]
    /\ raised' = [raised EXCEPT ![i] = <<>>]
    /\ result' = [result EXCEPT ![i] = NoResult]
    /\ UNCHANGED <<fsVars, sessionFrame, isDeploying>>

NextSession ==
    \/ \E i \in Inv : SessionStart(i)
    \/ \E i \in Inv : SessionReaddirDone(i)
    \/ \E i \in Inv : SessionFinalizeDone(i)
    \/ \E i \in Inv : SessionReadFileDone(i)
    \/ \E i \in Inv : CalculateSHA256Done(i)
    \/ \E i \in Inv : CreateSessionDone(i)
    \/ \E i \in Inv : UploadFileDone(i)
    \/ \E i \in Inv : PrepareDone(i)
    \/ \E i \in Inv : SessionReturn(i)

SpecSession == InitSession /\ [][NextSession]_vars

\* Every operation a handler awaits returns or fails, and the promise of a
\* handler that ended is dropped; a deploy is started whenever the user likes.
SessionFairness ==
    \A i \in Inv :
      /\ WF_vars(SessionReaddirDone(i))
      /\ WF_vars(SessionFinalizeDone(i))
      /\ WF_vars(SessionReadFileDone(i))
      /\ WF_vars(CalculateSHA256Done(i))
      /\ WF_vars(CreateSessionDone(i))
      /\ WF_vars(UploadFileDone(i))
      /\ WF_vars(PrepareDone(i))
      /\ WF_vars(SessionReturn(i))

SpecSessionFair == SpecSession /\ SessionFairness

(***************************************************************************)
(* The first variant of the deploy command (part_001): the archive is      *)
(* written to project.zip in the workspace root, packaging ignores         *)
(* node_modules only, and the handler does not await withProgress.  The    *)
(* task handed to withProgress starts compressDirectory, whose executor    *)
(* runs up to archive.finalize(); the handler then goes through its        *)
(* finally block and ends, while the task goes on: archive.glob walks the  *)
(* tree, the archive is written, read back and handed to deployToZeabur.   *)
(* A rejection of the task reaches no catch block.  deployToZeabur is      *)
(* taken as one awaited operation; what its requests do to the backend and *)
(* to the identity record is left out of this section.                     *)
(***************************************************************************)

\* const outputPath = path.join(workspacePath, 'project.zip')
OldOutputPath == <<"project.zip">>

\* The files archive.glob can meet: the archive being written, and the tree.
OldFiles == <<OldOutputPath>> \o Files

\* archive.glob('**/*', { cwd: sourceDir, ignore: ['**/node_modules/**'] })
OldPatterns == << [form |-> "subtree", name |-> "node_modules"] >>

\* Without the option dot, `**/*` matches no path with a segment that
\* begins with a dot.
DotHidden(path) == \E k \in 1..Len(path) : path[k] \in DotNames

oldFrame == <<workspaceOpen, zeaburDir, config, backendVars, idVars, header, nameVars,
              authVars, sessionVars, treeVars, gitignore, walked, archiveIg, zipEntries,
              sep>>

\* The handler from its start to its end: the workspace check, withProgress
\* with the task up to its first await (createWriteStream, archive.glob and
\* archive.finalize are called), and the finally block, which removes
\* project.zip or throws when the file is not there.  The task stays pending.
\* The command is run again only when no earlier task is still globbing, so
\* that `globbed` and `archive` are those of one glob.
OldStart(i) ==
    /\ \A j \in Inv : pc[j] \notin {"glob", "done"}
    /\ pc[i] = "idle"
    /\ result' = [result EXCEPT ![i] = NoResult]
    /\ globbed' = 0
    /\ archive' = {}
    /\ UNCHANGED oldFrame
    /\ IF ~workspaceOpen
       THEN /\ shown' = [shown EXCEPT ![i] = <<NoWorkspace>>]
            /\ raised' = [raised EXCEPT ![i] = <<>>]
            /\ log' = [log EXCEPT ![i] = <<>>]
            /\ pc' = [pc EXCEPT ![i] = "done"]
            /\ UNCHANGED zipExists
       ELSE /\ shown' = [shown EXCEPT ![i] = <<>>]
            /\ log' = [log EXCEPT ![i] =
                   <<Entry("createWriteStream", "ok", 0, 0), UnlinkEntry(zipExists)>>]
            /\ raised' = [raised EXCEPT ![i] = UnlinkError(zipExists)]
            /\ zipExists' = UnlinkSync(zipExists)
            /\ pc' = [pc EXCEPT ![i] = "glob"]

\* archive.glob meets the next file and appends it unless it is hidden or
\* ignored.  Whether project.zip is met depends on whether the write stream
\* has created it by the time its directory is read.
OldArchiveGlob(i) ==
    /\ pc[i] = "glob"
    /\ globbed < Len(OldFiles)
    /\ globbed' = globbed + 1
    /\ \E met \in (IF OldFiles[globbed + 1] = OldOutputPath THEN BOOLEAN ELSE {TRUE}) :
         archive' = IF /\ met
                       /\ ~DotHidden(OldFiles[globbed + 1])
                       /\ ~GlobIgnored(OldFiles[globbed + 1], OldPatterns)
                    THEN archive \cup {OldFiles[globbed + 1]}
                    ELSE archive
    /\ UNCHANGED <<oldFrame, zipExists, localVars>>

\* compressDirectory settles once the glob is through: the write stream has
\* created project.zip; output 'close' resolves, archive 'error' rejects.
OldCompressDirectoryDone(i) ==
    /\ pc[i] = "glob"
    /\ globbed = Len(OldFiles)
    /\ zipExists' = TRUE
    /\ UNCHANGED <<oldFrame, globbed, archive, shown, result>>
    /\ \E ok \in BOOLEAN :
         IF ok
         THEN /\ log' = [log EXCEPT ![i] = Append(@, Entry("compress", "ok", 0, 0))]
              /\ pc' = [pc EXCEPT ![i] = "readFile"]
              /\ UNCHANGED raised
         ELSE /\ log' = [log EXCEPT ![i] = Append(@, Entry("compress", "throw", 0, 0))]
              /\ raised' = [raised EXCEPT ![i] = Append(@, ArchiveError)]
              /\ pc' = [pc EXCEPT ![i] = "done"]

\* readFile settles; deployToZeabur is called.
OldReadFileDone(i) ==
    /\ pc[i] = "readFile"
    /\ UNCHANGED <<oldFrame, zipExists, globbed, archive, shown, result>>
    /\ IF zipExists
       THEN /\ log' = [log EXCEPT ![i] = Append(@, Entry("readFile", "ok", 0, 0))]
            /\ pc' = [pc EXCEPT ![i] = "deployToZeabur"]
            /\ UNCHANGED raised
       ELSE /\ log' = [log EXCEPT ![i] = Append(@, Entry("readFile", "throw", 0, 0))]
            /\ raised' = [raised EXCEPT ![i] = Append(@, ENOENT)]
            /\ pc' = [pc EXCEPT ![i] = "done"]

\* deployToZeabur settles: with a result the dashboard is opened; an error it
\* rethrows rejects the task.  Nothing removes project.zip.
OldDeployToZeaburDone(i) ==
    /\ pc[i] = "deployToZeabur"
    /\ UNCHANGED <<oldFrame, zipExists, globbed, archive, shown>>
    /\ pc' = [pc EXCEPT ![i] = "done"]
    /\ \E ok \in BOOLEAN :
         IF ok
         THEN /\ log' = [log EXCEPT ![i] =
                     @ \o <<Entry("deployToZeabur", "ok", 0, 0),
                            Entry("openExternal", "ok", 0, 0)>>]
              /\ result' = [result EXCEPT ![i] = <<0, 0, 1>>]
              /\ UNCHANGED raised
         ELSE /\ log' = [log EXCEPT ![i] = Append(@, Entry("deployToZeabur", "throw", 0, 0))]
              /\ raised' = [raised EXCEPT ![i] = Append(@, NetworkError)]
              /\ UNCHANGED result

\* The promise of a task that ended is dropped.
OldReturn(i) ==
    /\ pc[i] = "done"
    /\ pc' = [pc EXCEPT ![i] = "idle"]
    /\ log' = [log EXCEPT ![i] = <<>>]
    /\ shown' = [shown EXCEPT ![i] = <<>>]
    /\ raised' = [raised EXCEPT ![i] = <<>>]
    /\ result' = [result EXCEPT ![i] = NoResult]
    /\ UNCHANGED <<oldFrame, zipExists, globbed, archive>>

NextOld ==
    \/ \E i \in Inv : OldStart(i)
    \/ \E i \in Inv : OldArchiveGlob(i)
    \/ \E i \in Inv : OldCompressDirectoryDone(i)
    \/ \E i \in Inv : OldReadFileDone(i)
    \/ \E i \in Inv : OldDeployToZeaburDone(i)
    \/ \E i \in Inv : OldReturn(i)

SpecOld == Init /\ [][NextOld]_vars

(***************************************************************************)
(* Reading the logs.                                                       *)
(***************************************************************************)

\* Number of operations `op` in the log of invocation i.
Count(i, op) == Cardinality({k \in 1..Len(log[i]) : log[i][k].op = op})

\* Number of answers `res` in the log of invocation i.
CountRes(i, res) == Cardinality({k \in 1..Len(log[i]) : log[i][k].res = res})

\* Number of times the text e was passed to showErrorMessage by invocation i.
Shown(i, e) == Cardinality({k \in 1..Len(shown[i]) : shown[i][k] = e})

\* A record that holds both identifiers.
BothPresent(p, s) == p # NoID /\ s # NoID

\* getOrCreateProjectAndService has returned to deploy().
Provisioned(i) ==
    \/ pc[i] \in {"wait", "getEnvironment", "upload", "environments", "domains", "addDomain"}
    \/ pc[i] = "done" /\ Count(i, "getEnvironment") = 1

(***************************************************************************)
(* C1.  Whenever the identity record holds both a projectID and a          *)
(* serviceID, getOrCreateProjectAndService returns exactly those two       *)
(* identifiers with justCreated = false and issues no control-plane call:  *)
(* the log of the invocation holds no provisioning call and no write, and  *)
(* the operation after the read is already deploy()'s environment query.   *)
(* The step that makes the call leaves the record and the backend as they  *)
(* were, so that a second call in a row reads the same record and returns  *)
(* the same identifiers.                                                   *)
(***************************************************************************)
C1_ReuseWithoutCalls ==
    /\ [](\A i \in Inv : \A k \in 1..Len(log[i]) :
           (log[i][k].op = "readConfig" /\ BothPresent(log[i][k].arg[1], log[i][k].arg[2])) =>
              /\ projectID[i] = log[i][k].arg[1]
              /\ serviceID[i] = log[i][k].arg[2]
              /\ ~justCreated[i]
              /\ Count(i, "createTemporaryProject") = 0
              /\ Count(i, "createService") = 0
              /\ Count(i, "writeConfig") = 0
              /\ k < Len(log[i]) => log[i][k + 1].op = "getEnvironment")
    /\ [][ \A i \in Inv :
             (/\ Count(i, "readConfig")' > Count(i, "readConfig")
              /\ config.exists
              /\ BothPresent(config.projectID, config.serviceID)) =>
                /\ config' = config
                /\ <<nProjects, nServices, svcProject, envReady, domains>>'
                     = <<nProjects, nServices, svcProject, envReady, domains>>
                /\ projectID'[i] = config.projectID
                /\ serviceID'[i] = config.serviceID
                /\ ~justCreated'[i]
                /\ log'[i][Len(log'[i])] =
                     Entry("readConfig", "hit", config.projectID, config.serviceID) ]_vars

\* A call has returned the pair of a full record, and the deploy has gone on
\* to the upload with it.
C1_Witness ==
    \E i \in Inv :
      /\ pc[i] = "upload"
      /\ ~justCreated[i]
      /\ config.exists
      /\ BothPresent(config.projectID, config.serviceID)
      /\ \E k \in 1..Len(log[i]) :
           log[i][k] = Entry("readConfig", "hit", config.projectID, config.serviceID)
      /\ projectID[i] = config.projectID
      /\ serviceID[i] = config.serviceID

(***************************************************************************)
(* C2.  With the deploys run one after the other, once the identity record *)
(* holds both identifiers no step changes or removes it, and no step adds  *)
(* a createTemporaryProject or a createService to the log of any deploy.   *)
(***************************************************************************)
C2_IdentityPermanent ==
    [][ (config.exists /\ BothPresent(config.projectID, config.serviceID)) =>
          /\ config' = config
          /\ \A i \in Inv :
               /\ Count(i, "createTemporaryProject")' <= Count(i, "createTemporaryProject")
               /\ Count(i, "createService")' <= Count(i, "createService")
               /\ Count(i, "writeConfig")' <= Count(i, "writeConfig") ]_vars

\* A deploy that found the record ended in failure, and the record is still there.
C2_Witness ==
    \E i \in Inv :
      /\ pc[i] = "done"
      /\ \E k \in 1..Len(log[i]) : log[i][k].op = "readConfig" /\ log[i][k].res = "hit"
      /\ ~justCreated[i]
      /\ BothPresent(projectID[i], serviceID[i])
      /\ result[i] = NoResult
      /\ config = [exists |-> TRUE, projectID |-> projectID[i], serviceID |-> serviceID[i]]

(***************************************************************************)
(* C3.  When the record read lacks an identifier, the call issues at most  *)
(* one createTemporaryProject and at most one createService; when it has   *)
(* returned, the log after the read is exactly createTemporaryProject (ok),*)
(* createService (ok) for the project the first call returned, then the    *)
(* write of that pair, and justCreated is true.  The step that writes      *)
(* leaves the record holding the pair that the call returns.               *)
(***************************************************************************)
C3_ProvisionOnce ==
    /\ [](\A i \in Inv : \A k \in 1..Len(log[i]) :
           (log[i][k].op = "readConfig" /\ ~BothPresent(log[i][k].arg[1], log[i][k].arg[2])) =>
              /\ Count(i, "createTemporaryProject") <= 1
              /\ Count(i, "createService") <= 1
              /\ Count(i, "writeConfig") <= 1
              /\ Provisioned(i) =>
                   /\ justCreated[i]
                   /\ Count(i, "createTemporaryProject") = 1
                   /\ Count(i, "createService") = 1
                   /\ Len(log[i]) >= k + 3
                   /\ log[i][k + 1] = Entry("createTemporaryProject", "ok", projectID[i], 0)
                   /\ log[i][k + 2] = Entry("createService", "ok", projectID[i], serviceID[i])
                   /\ log[i][k + 3] = Entry("writeConfig", "ok", projectID[i], serviceID[i])
                   /\ svcProject[serviceID[i]] = projectID[i])
    /\ [][ \A i \in Inv :
             (Count(i, "writeConfig")' > Count(i, "writeConfig")) =>
                /\ pc'[i] = "wait"
                /\ justCreated'[i]
                /\ BothPresent(projectID'[i], serviceID'[i])
                /\ config' = [exists |-> TRUE, projectID |-> projectID'[i],
                              serviceID |-> serviceID'[i]] ]_vars

\* A call that found a record without serviceID has provisioned and returned.
C3_Witness ==
    \E i \in Inv :
      /\ pc[i] = "wait"
      /\ justCreated[i]
      /\ \E k \in 1..Len(log[i]) :
           log[i][k] = Entry("readConfig", "miss", PartialConfig.projectID, NoID)
      /\ config = [exists |-> TRUE, projectID |-> projectID[i], serviceID |-> serviceID[i]]

C5_SingleDeploy == Cardinality({i \in Inv : pc[i] # "idle"}) <= 1

(***************************************************************************)
(* C6.  No addDomain call is issued for a service that already has a       *)
(* domain, whatever the lookup calls answered.                             *)
(***************************************************************************)
C6_NoDuplicateDomain ==
    \A i \in Inv : \A k \in 1..Len(log[i]) :
      log[i][k].op = "addDomain" => log[i][k].arg[2] = 0

(***************************************************************************)
(* C7.  A deploy issues each lookup query and addDomain at most once.  A   *)
(* deploy that reached domain resolution and ended without having seen a   *)
(* domain in the lookup issued exactly one addDomain; when addDomain       *)
(* failed, it was the last remote call, and the deploy ended without a     *)
(* result, with the error of that call raised and shown.                   *)
(***************************************************************************)
C7_FallbackOnce ==
    \A i \in Inv :
      /\ Count(i, "addDomain") <= 1
      /\ Count(i, "environments") <= 1
      /\ Count(i, "domains") <= 1
      /\ (/\ pc[i] = "done"
          /\ Count(i, "environments") = 1
          /\ ~\E k \in 1..Len(log[i]) :
                log[i][k].op = "domains" /\ log[i][k].res = "ok" /\ log[i][k].arg[2] > 0)
           => Count(i, "addDomain") = 1
      /\ \A k \in 1..Len(log[i]) :
           (log[i][k].op = "addDomain" /\ log[i][k].res # "ok") =>
              /\ pc[i] = "done"
              /\ result[i] = NoResult
              /\ Len(log[i]) = k + 1
              /\ log[i][k + 1].op = "unlink"
              /\ \E n \in 1..Len(raised[i]) : raised[i][n] = ErrorOf(log[i][k].res)
              /\ Shown(i, ErrorOf(log[i][k].res)) >= 1

\* The lookup answered with an empty list, addDomain failed, the deploy failed.
C7_Witness ==
    \E i \in Inv :
      /\ pc[i] = "done"
      /\ result[i] = NoResult
      /\ \E k \in 1..Len(log[i]) :
           /\ log[i][k] = Entry("domains", "ok", serviceID[i], 0)
           /\ log[i][k + 1] = Entry("addDomain", "error", serviceID[i], 0)

(***************************************************************************)
(* C8.  With the deploys run one after the other: a deploy that            *)
(* provisioned leaves the record holding its pair at every later step and  *)
(* when it ends, whatever fails; and once a service exists, a deploy that  *)
(* did not create it never provisions: it uses the pair of that service,   *)
(* which is the pair in the record.                                        *)
(***************************************************************************)
C8_PartialSuccessReused ==
    \A i \in Inv :
      /\ justCreated[i] =>
           config = [exists |-> TRUE, projectID |-> projectID[i], serviceID |-> serviceID[i]]
      /\ (nServices >= 1 /\ ~justCreated[i]) =>
           /\ pc[i] \notin {"createTemporaryProject", "createService", "wait"}
           /\ Count(i, "createTemporaryProject") = 0
           /\ Count(i, "createService") = 0
           /\ config = [exists |-> TRUE, projectID |-> svcProject[nServices],
                        serviceID |-> nServices]
           /\ Provisioned(i) =>
                /\ projectID[i] = svcProject[nServices]
                /\ serviceID[i] = nServices

\* The only service has no domain (the deploy that created it failed), and a
\* later deploy has taken its pair from the record and got as far as the upload.
C8_Witness ==
    \E i \in Inv :
      /\ pc[i] = "upload"
      /\ ~justCreated[i]
      /\ nServices = 1
      /\ domains[1] = 0
      /\ serviceID[i] = 1
      /\ projectID[i] = svcProject[1]

C10_ReportedOnce ==
    \A i \in Inv :
      pc[i] = "done" =>
        \A n \in 1..Len(raised[i]) :
          /\ Shown(i, raised[i][n]) = 1
          /\ result[i] = NoResult
\* The directory names the built-in rules exclude.
BuiltinExcluded == {"node_modules", ".git", ".zeabur", "venv", "env"} \cup DotNames

(***************************************************************************)
(* C11.  Whatever the .gitignore holds, negations of built-in rules        *)
(* included, no file below node_modules/, .git/, .zeabur/, venv/, env/ or  *)
(* a dot-prefixed directory is an entry of the archive, in either variant  *)
(* of compressDirectory.                                                   *)
(***************************************************************************)
C11_BuiltinsExcluded ==
    \A f \in archive \cup archiveIg :
      \A k \in 1..(Len(f) - 1) : f[k] \notin BuiltinExcluded
\* Lowercase ASCII letters, digits and the hyphen, over the code units tried.
SlugChars == {"a", "z", "7", "-"}

MaxMiddle == 61

\* s.match(validDomainNameRegex)
ValidDomainName(s) ==
    /\ Len(s) >= 2
    /\ Len(s) <= MaxMiddle + 2
    /\ s[1] \in Alphanumeric
    /\ s[Len(s)] \in Alphanumeric
    /\ \A k \in 1..Len(s) : s[k] \in Alphanumeric \cup {"-"}

(***************************************************************************)
(* C13.  For every title, convertTitle(title) is a valid domain label: it  *)
(* begins and ends with an alphanumeric character and has 2 to 63          *)
(* characters, all of them alphanumeric or hyphens.                        *)
(***************************************************************************)
C13_ValidDomainLabel == nameStage # "title" => ValidDomainName(convertedName)

(***************************************************************************)
(* C14.  When createDomain is called without a domainName, the domain of   *)
(* the addDomain request is the service name, which is the slug of the     *)
(* folder name, followed by exactly 6 characters, each a lowercase ASCII   *)
(* letter, and isGenerated is true.                                        *)
(***************************************************************************)
C14_GeneratedDomain ==
    nameStage = "generated" =>
      /\ domainRequest.isGenerated
      /\ Len(domainRequest.domain) = Len(title) + 6
      /\ SubSeq(domainRequest.domain, 1, Len(title)) = convertedName
      /\ \A k \in (Len(title) + 1)..(Len(title) + 6) :
           domainRequest.domain[k] \in {Characters[n] : n \in 1..26}

\* The request for the folder name "Z7" with the suffix "azzaza".
C14_Witness ==
    /\ nameStage = "generated"
    /\ title = <<"Z", "7">>
    /\ domainRequest = [domain |-> <<"z", "7", "a", "z", "z", "a", "z", "a">>,
                        isGenerated |-> TRUE]
(***************************************************************************)
(* C15.  When the domains query of a deploy is answered with a non-empty   *)
(* list, the deploy ends at once and returns the first domain of the list  *)
(* with the projectID and serviceID it used, which are those of the        *)
(* identity it read or provisioned; it issues no addDomain.  The result is *)
(* a function of the identity and of the list alone.                       *)
(***************************************************************************)
C15_FirstDomainReturned ==
    \A i \in Inv : \A k \in 1..Len(log[i]) :
      (log[i][k].op = "domains" /\ log[i][k].res = "ok" /\ log[i][k].arg[2] > 0) =>
         /\ pc[i] = "done"
         /\ Len(log[i]) = k + 1
         /\ Count(i, "addDomain") = 0
         /\ log[i][k].arg[1] = serviceID[i]
         /\ result[i] = <<projectID[i], serviceID[i], 1>>
         /\ \E l \in 1..k :
              \/ log[i][l] = Entry("readConfig", "hit", projectID[i], serviceID[i])
              \/ log[i][l] = Entry("writeConfig", "ok", projectID[i], serviceID[i])

\* A deploy that read its identity from the record found two domains and
\* returned the first.
C15_Witness ==
    \E i \in Inv :
      /\ pc[i] = "done"
      /\ ~justCreated[i]
      /\ serviceID[i] # NoID
      /\ domains[serviceID[i]] = 2
      /\ log[i][Len(log[i]) - 1] = Entry("domains", "ok", serviceID[i], 2)
      /\ result[i] = <<projectID[i], serviceID[i], 1>>

C17_ProvisioningError ==
    /\ [](\A i \in Inv : \A k \in 1..Len(log[i]) :
           (/\ log[i][k].op \in {"createTemporaryProject", "createService"}
            /\ log[i][k].res \in {"denied", "error", "nodata"}) =>
              /\ pc[i] = "done"
              /\ result[i] = NoResult
              /\ ~Provisioned(i)
              /\ serviceID[i] = NoID
              /\ Count(i, "writeConfig") = 0
              /\ Len(log[i]) = k + 1
              /\ Len(raised[i]) >= 1
              /\ log[i][k].res = "error" => raised[i][1] = BackendError
              /\ log[i][k].res = "denied" => raised[i][1] = PermissionDenied
              /\ Shown(i, raised[i][1]) >= 1)
    /\ [][ \A i \in Inv :
             (\E o \in {"denied", "error", "nodata"} :
                \/ Count(i, "createTemporaryProject")' > Count(i, "createTemporaryProject")
                     /\ log'[i][Len(log'[i]) - 1].res = o
                \/ Count(i, "createService")' > Count(i, "createService")
                     /\ log'[i][Len(log'[i]) - 1].res = o)
               => config' = config ]_vars

\* createService was answered with an errors array after the project was
\* created: the deploy failed with the backend's text and no record exists.
C17_Witness ==
    \E i \in Inv :
      /\ pc[i] = "done"
      /\ projectID[i] # NoID
      /\ log[i][Len(log[i]) - 1] = Entry("createService", "error", projectID[i], 0)
      /\ raised[i] = <<BackendError>>
      /\ ~config.exists
(***************************************************************************)
(* C19.  A request of a deploy whose fetch was rejected ends the deploy:   *)
(* the deploy has no result, the transport error has been raised and       *)
(* shown, the request was issued once, and it is the last request of the   *)
(* deploy.                                                                 *)
(***************************************************************************)
C19_TransportFailureFatal ==
    \A i \in Inv : \A k \in 1..Len(log[i]) :
      (log[i][k].op \in RemoteOps /\ log[i][k].res = "throw") =>
         /\ pc[i] = "done"
         /\ result[i] = NoResult
         /\ Count(i, log[i][k].op) = 1
         /\ \A l \in (k + 1)..Len(log[i]) : log[i][l].op \notin RemoteOps
         /\ \E n \in 1..Len(raised[i]) : raised[i][n] = NetworkError
         /\ Shown(i, NetworkError) >= 1
(***************************************************************************)
(* C20.  The stored key is updated by setApiKey and by logout only: no     *)
(* deploy step, no request and no rendering of the sidebar updates it.     *)
(***************************************************************************)
C20_TokenSetClearOnly ==
    /\ tokenWriter \in {"none", "setApiKey", "logout"}
    /\ tokenWriter = "setApiKey" => token \in ApiKeys
    /\ tokenWriter = "logout" => token = NoToken
\* The reads of the workspace that packaging makes.
PackagingReads == {"readGitignore", "readdir", "compress"}

(***************************************************************************)
(* C18.  A failed read of the workspace during packaging ends the deploy   *)
(* in failure: the invocation has ended without a result, the error has    *)
(* been shown, and the invocation has sent no request.                     *)
(***************************************************************************)
C18_PackagingFailureAborts ==
    \A i \in Inv : \A k \in 1..Len(log[i]) :
      (log[i][k].op \in PackagingReads /\ log[i][k].res = "throw") =>
         /\ pc[i] = "done"
         /\ result[i] = NoResult
         /\ Len(shown[i]) >= 1
         /\ \A l \in 1..Len(log[i]) :
              log[i][l].op \notin {"createSession", "uploadFile", "prepare"}

\* The step of a deploy an operation of its log belongs to: packaging,
\* provisioning, environment lookup, archive upload, domain resolution, and
\* the cleanup that ends the handler.
StepOf(op) ==
    CASE op \in {"createWriteStream", "compress", "readFile"} -> 1
      [] op \in {"readConfig", "createTemporaryProject", "createService", "writeConfig"} -> 2
      [] op \in {"wait", "getEnvironment"} -> 3
      [] op = "upload" -> 4
      [] op \in {"environments", "domains", "addDomain"} -> 5
      [] OTHER -> 6

\* The step the promise an invocation awaits belongs to.
StepOfAwaited(p) ==
    CASE p \in {"compress", "readFile"} -> 1
      [] p \in {"createTemporaryProject", "createService"} -> 2
      [] p \in {"wait", "getEnvironment"} -> 3
      [] p = "upload" -> 4
      [] p \in {"environments", "domains", "addDomain"} -> 5
      [] OTHER -> 6

\* An operation that completed: it did not throw and, for a request to the
\* control plane, was answered with data.  The deploy endpoint completes with
\* any response.
Completed(e) ==
    \/ e.res \in {"ok", "hit", "miss"}
    \/ e.op = "upload" /\ e.res # "throw"

(***************************************************************************)
(* C21.  The operations of one deploy are logged in the order packaging,   *)
(* provisioning, environment lookup, archive upload, domain resolution:    *)
(* an operation of a later step follows only completed operations of the   *)
(* earlier steps, no operation of an earlier step follows one of a later   *)
(* step, and the one promise the invocation awaits belongs to the step of  *)
(* its last operation or, when that operation completed, to a later one.   *)
(***************************************************************************)
C21_StepsInOrder ==
    \A i \in Inv :
      /\ \A k \in 1..Len(log[i]) : \A l \in 1..Len(log[i]) :
           k < l =>
             /\ StepOf(log[i][k].op) <= StepOf(log[i][l].op)
             /\ (StepOf(log[i][k].op) < StepOf(log[i][l].op) /\ StepOf(log[i][l].op) <= 5)
                  => Completed(log[i][k])
      /\ \A k \in 1..Len(log[i]) :
           log[i][k].op \in RemoteOps => Count(i, log[i][k].op) = 1
      /\ pc[i] \notin {"idle", "done"} =>
           /\ Len(log[i]) >= 1
           /\ StepOf(log[i][Len(log[i])].op) <= StepOfAwaited(pc[i])
           /\ \A k \in 1..Len(log[i]) :
                StepOf(log[i][k].op) < StepOfAwaited(pc[i]) => Completed(log[i][k])
           /\ pc[i] \in RemoteOps => Count(i, pc[i]) = 0

\* A deploy went through all five steps: it packaged, provisioned, found the
\* environment, sent the archive, looked the domain up in vain and created it.
C21_Witness ==
    \E i \in Inv :
      /\ pc[i] = "done"
      /\ result[i] # NoResult
      /\ Count(i, "compress") = 1
      /\ Count(i, "createService") = 1
      /\ Count(i, "getEnvironment") = 1
      /\ Count(i, "upload") = 1
      /\ Count(i, "domains") = 1
      /\ Count(i, "addDomain") = 1

(***************************************************************************)
(* C22.  A deploy waits at most once, and it waits exactly when it created *)
(* its project: the wait is logged right after the identity record was     *)
(* written and right before the one environment lookup; a deploy that      *)
(* reused the record has looked the environment up without waiting.  When  *)
(* the lookup after the wait lists no environment, the deploy ends with    *)
(* 'No environments found for the project' and has looked up once.         *)
(***************************************************************************)
C22_WaitOnceWhenCreated ==
    \A i \in Inv :
      /\ Count(i, "wait") <= 1
      /\ Count(i, "getEnvironment") <= 1
      /\ pc[i] = "wait" =>
           /\ justCreated[i]
           /\ Count(i, "wait") = 0
           /\ log[i][Len(log[i])].op = "writeConfig"
      /\ \A k \in 1..Len(log[i]) :
           /\ log[i][k].op = "wait" =>
                /\ justCreated[i]
                /\ k > 1 /\ log[i][k - 1].op = "writeConfig"
                /\ k < Len(log[i]) => log[i][k + 1].op = "getEnvironment"
                /\ k = Len(log[i]) => pc[i] = "getEnvironment"
           /\ log[i][k].op = "getEnvironment" =>
                /\ k > 1
                /\ justCreated[i] => log[i][k - 1].op = "wait"
                /\ ~justCreated[i] =>
                     /\ Count(i, "wait") = 0
                     /\ log[i][k - 1].op = "readConfig" /\ log[i][k - 1].res = "hit"
           /\ (log[i][k].op = "getEnvironment" /\ log[i][k].res = "ok"
                 /\ log[i][k].arg[2] = NoID) =>
                /\ pc[i] = "done"
                /\ result[i] = NoResult
                /\ raised[i] = <<NoEnvironments>>
                /\ Count(i, "getEnvironment") = 1
                /\ Len(log[i]) = k + 1
      /\ (pc[i] = "getEnvironment" /\ ~justCreated[i]) =>
           /\ Count(i, "wait") = 0
           /\ log[i][Len(log[i])].res = "hit"

\* One deploy created its project, waited, and found the environment; the
\* next one reused the record and is looking the environment up without
\* having waited.
C22_WitnessReuse ==
    \E i \in Inv : \E j \in Inv :
      /\ pc[i] = "getEnvironment"
      /\ ~justCreated[i]
      /\ Count(i, "wait") = 0
      /\ pc[j] = "idle"
      /\ HasIdentity(config)
      /\ nProjects >= 1

\* A deploy created its project, waited once, found no environment and failed.
C22_Witness ==
    \E i \in Inv :
      /\ pc[i] = "done"
      /\ justCreated[i]
      /\ Count(i, "wait") = 1
      /\ raised[i] = <<NoEnvironments>>

(***************************************************************************)
(* C23.  When every operation a handler awaits returns or fails, a deploy  *)
(* that was started ends: its handler reaches its end, with a result or    *)
(* with an error that was shown.                                           *)
(***************************************************************************)
C23_DeployEnds ==
    \A i \in Inv :
      (pc[i] \notin {"idle", "done"}) ~>
         (pc[i] = "done" /\ (result[i] # NoResult \/ Len(shown[i]) >= 1))

(***************************************************************************)
(* C24.  The step of a deploy that issues a request, to the control plane  *)
(* or to the deploy endpoint, gives it the header Authorization: Bearer    *)
(* <key> with the key stored at that moment, and no Authorization header   *)
(* when no key is stored then.  A header, once built, is the header of     *)
(* that request whatever is stored or removed later.                       *)
(***************************************************************************)
C24_BearerWhenStored ==
    [][ \A i \in Inv :
          /\ (pc'[i] \in RemoteOps /\ pc'[i] # pc[i]) =>
               /\ token \in ApiKeys => header'[i] = <<"Bearer", token>>
               /\ token = NoToken => header'[i] = <<>>
               /\ token \in ApiKeys \/ token = NoToken
          /\ (pc'[i] = pc[i] /\ pc[i] \in RemoteOps) => header'[i] = header[i] ]_vars

\* A request went out without the header while no key was stored; a key was
\* stored before the next request of the same deploy, which carries it.
C24_Witness ==
    \E i \in Inv :
      /\ pc[i] = "upload"
      /\ token \in ApiKeys
      /\ header[i] = <<"Bearer", token>>
      /\ tokenWriter = "setApiKey"
      /\ Count(i, "createTemporaryProject") = 1

(***************************************************************************)
(* C25.  Once the deploy endpoint has answered, with whatever status, the  *)
(* deploy goes on to the domain lookup, and how it ends is decided there:  *)
(* it has a result exactly when its last request, the domains query or     *)
(* addDomain, was answered with data, and without a result it shows the    *)
(* error of addDomain.                                                     *)
(***************************************************************************)
C25_AnyResponseAccepted ==
    \A i \in Inv : \A k \in 1..Len(log[i]) :
      (log[i][k].op = "upload" /\ log[i][k].res # "throw") =>
         /\ k = Len(log[i]) => pc[i] = "environments"
         /\ k < Len(log[i]) => log[i][k + 1].op = "environments"
         /\ pc[i] # "done" => result[i] = NoResult /\ pc[i] \in {"environments", "domains", "addDomain"}
         /\ pc[i] = "done" =>
              /\ Len(log[i]) >= k + 3
              /\ log[i][Len(log[i])].op = "unlink"
              /\ log[i][Len(log[i]) - 1].op \in {"domains", "addDomain"}
              /\ result[i] # NoResult <=> log[i][Len(log[i]) - 1].res = "ok"
              /\ log[i][Len(log[i]) - 1].res # "ok" =>
                   /\ log[i][Len(log[i]) - 1].op = "addDomain"
                   /\ Shown(i, ErrorOf(log[i][Len(log[i]) - 1].res)) >= 1

\* The deploy endpoint answered with an error status, and the deploy ended
\* with the domain of the service as its result.
C25_Witness ==
    \E i \in Inv : \E k \in 1..Len(log[i]) :
      /\ log[i][k].op = "upload"
      /\ log[i][k].res = "error"
      /\ pc[i] = "done"
      /\ result[i] # NoResult

\* The relative path of a file, written with forward slashes.
RECURSIVE SlashPath(_)
SlashPath(path) ==
    IF Len(path) = 1 THEN <<path[1]>>
    ELSE SlashPath(SubSeq(path, 1, Len(path) - 1)) \o <<"/", path[Len(path)]>>

\* The rules ignore neither the file nor a directory above it.
Included(rules, f) ==
    /\ ~NameIgnored(rules, f[Len(f)])
    /\ \A k \in 1..(Len(f) - 1) : ~DirIgnored(rules, f[k])

\* The regular files among the entries the walk has passed.
FilesPassed == {Entries[n].path : n \in {m \in 1..walked : ~Entries[m].dir}}

(***************************************************************************)
(* C26.  The walk hands to archive.file, once, each regular file it has    *)
(* passed that the rules do not ignore and that has no ignored directory   *)
(* above it, under its relative path written with forward slashes, and     *)
(* nothing else: no file of an ignored directory, such as one ignored by   *)
(* the line build/, and no directory.                                      *)
(***************************************************************************)
C26_ArchiveEntries ==
    LET rules == IgRules(gitignore)
    IN  /\ \A n \in 1..Len(Files) :
             Cardinality({k \in 1..Len(zipEntries) : zipEntries[k].source = Files[n]})
               = IF Files[n] \in FilesPassed /\ Included(rules, Files[n]) THEN 1 ELSE 0
        /\ \A k \in 1..Len(zipEntries) :
             /\ \E n \in 1..Len(Files) : zipEntries[k].source = Files[n]
             /\ zipEntries[k].name = SlashPath(zipEntries[k].source)
             /\ \A l \in 1..Len(zipEntries) : zipEntries[l].name = zipEntries[k].name => l = k
             /\ \A j \in 1..(Len(zipEntries[k].source) - 1) :
                  ~DirIgnored(rules, zipEntries[k].source[j])
        /\ (\E n \in 1..Len(gitignore) : gitignore[n] = [kind |-> "dir", name |-> "build"]) =>
             \A k \in 1..Len(zipEntries) : zipEntries[k].source[1] # "build"

\* On a platform whose separator is the backslash, the walk is over for a
\* workspace whose .gitignore has the line build/: the archive has a file of
\* a subdirectory and nothing of build.
C26_Witness ==
    /\ walked = Len(Entries)
    /\ sep = "\\"
    /\ \E n \in 1..Len(gitignore) : gitignore[n] = [kind |-> "dir", name |-> "build"]
    /\ \E k \in 1..Len(zipEntries) : zipEntries[k].name = <<"src", "/", "main.ts">>
    /\ \A k \in 1..Len(zipEntries) : zipEntries[k].source[1] # "build"

(***************************************************************************)
(* C27.  The flag isDeploying is true only while a handler of the deploy   *)
(* command is running: when every handler has ended or none was started,   *)
(* the flag is false.                                                      *)
(***************************************************************************)
C27_FlagOnlyWhileDeploying ==
    (\A i \in Inv : pc[i] \in {"idle", "done"}) => ~isDeploying

(***************************************************************************)
(* C28.  The identity record is written by the step that receives the data *)
(* of createService, right after createTemporaryProject and createService  *)
(* of the same deploy were answered with data, and by no other step; it    *)
(* then holds the projectID and the serviceID of those two answers.  When  *)
(* createService is answered without data, the deploy writes no record:    *)
(* the record still holds no complete identity, the created project has no *)
(* service, and a deploy that finds no complete identity asks for a        *)
(* project the backend has not handed out before.                          *)
(***************************************************************************)
C28_RecordAfterBoth ==
    /\ [](\A i \in Inv : \A k \in 1..Len(log[i]) :
           /\ log[i][k].op = "writeConfig" =>
                /\ k >= 3
                /\ log[i][k - 2] = Entry("createTemporaryProject", "ok", log[i][k].arg[1], 0)
                /\ log[i][k - 1] =
                     Entry("createService", "ok", log[i][k].arg[1], log[i][k].arg[2])
                /\ log[i][k].arg[1] \in ProjectIDs
                /\ log[i][k].arg[2] \in ServiceIDs
                /\ Count(i, "writeConfig") = 1
           /\ (log[i][k].op = "createService" /\ log[i][k].res # "ok") =>
                /\ k >= 2
                /\ log[i][k - 1] = Entry("createTemporaryProject", "ok", log[i][k].arg[1], 0)
                /\ Count(i, "writeConfig") = 0
                /\ pc[i] = "done"
                /\ result[i] = NoResult
                /\ ~(config.exists /\ config.projectID # NoID /\ config.serviceID # NoID)
                /\ \A s \in ServiceIDs : svcProject[s] # log[i][k].arg[1]
           /\ (log[i][k].op = "readConfig" /\ log[i][k].res = "miss") =>
                /\ k = Len(log[i]) => pc[i] = "createTemporaryProject"
                /\ k < Len(log[i]) => log[i][k + 1].op = "createTemporaryProject")
    /\ [][ /\ config' # config =>
                \E i \in Inv :
                  /\ Count(i, "writeConfig")' = Count(i, "writeConfig") + 1
                  /\ log'[i][Len(log'[i])].op = "writeConfig"
                  /\ config' = [exists |-> TRUE,
                                projectID |-> log'[i][Len(log'[i])].arg[1],
                                serviceID |-> log'[i][Len(log'[i])].arg[2]]
           /\ \A i \in Inv :
                (/\ Count(i, "createTemporaryProject")' = Count(i, "createTemporaryProject") + 1
                 /\ log'[i][Len(log'[i])].op = "createTemporaryProject"
                 /\ log'[i][Len(log'[i])].res = "ok") =>
                   /\ log'[i][Len(log'[i])].arg[1] = nProjects + 1
                   /\ nProjects' = nProjects + 1 ]_vars

\* createService failed for the first project, which is recorded nowhere;
\* the next deploy created the second project and a service for it, and the
\* record holds that pair.
C28_Witness ==
    \E i \in Inv :
      /\ Count(i, "writeConfig") = 1
      /\ nProjects = 2
      /\ nServices = 1
      /\ svcProject[1] = 2
      /\ config = [exists |-> TRUE, projectID |-> 2, serviceID |-> 1]
      /\ projectID[i] = 2
      /\ serviceID[i] = 1

(***************************************************************************)
(* C29.  The archive file is removed by the last operation of a deploy:    *)
(* once the removal is in the log of an invocation, nothing follows it     *)
(* there, and the invocation awaits nothing any more.                      *)
(***************************************************************************)
C29_CleanupLast ==
    \A i \in Inv : \A k \in 1..Len(log[i]) :
      log[i][k].op = "unlink" =>
         /\ k = Len(log[i])
         /\ pc[i] = "done"

\* The paths of the transient archive file, in the workspace root or in
\* .zeabur, and of the identity record.
TransientPaths ==
    { <<"project.zip">>, <<".zeabur", "project.zip">>, <<".zeabur", "config.json">> }

(***************************************************************************)
(* C30.  Packaging adds neither the archive file it is writing nor the     *)
(* identity record to the archive.                                         *)
(***************************************************************************)
C30_ArchiveExcludesItself ==
    /\ archive \cap TransientPaths = {}
    /\ archiveIg \cap TransientPaths = {}

\* ---------------------------------------------------------------------------
\* The sidebar: ZeaburDeployProvider.getChildren and the item builders that
\* read the deployment state (getRootItems, getProjectInformationItems,
\* getActionItems).  One getActionItems is pending at a time.
\* ---------------------------------------------------------------------------

\* getConfig(): the parsed .zeabur/config.json, or undefined (a record that
\* fails every `config && ...` test) without a workspace folder or file.
GetConfig == IF workspaceOpen /\ config.exists THEN config ELSE NoConfig

\* getConfig(): vscode.window.showErrorMessage('No workspace folder open')
ConfigNotices == IF workspaceOpen THEN {} ELSE {"showErrorMessage"}

\* new vscode.TreeItem(label), with the identifier or domain it carries
Item(label, arg) == [label |-> label, arg |-> arg]

\* A variant of ActionItemsCatch that does what the catch block of deploy() does.
ActionItemsCatchCreates(e) == "addDomain"

\* The catch block around getDomainOfService in getActionItems: the error is
\* written to the output channel and the items built so far are returned.
ActionItemsCatch(e) == "idle"

\* What the item builders have issued since the latest call of getChildren
\* began: what was issued before the step, the notices and output lines of the
\* step, and the request getActionItems now waits for.
TreeIssues(before, notices) ==
    treeOps' = before \cup notices \cup (IF treePc' = "idle" THEN {} ELSE {treePc'})

\* getChildren(undefined): 'Actions', 'User', and 'Project' when config.json
\* holds both identifiers.
GetRootItems ==
    /\ treeItems' = [treeItems EXCEPT !.of = "root", !.items =
           <<Item("Actions", 0), Item("User", 0)>>
           \o (IF HasIdentity(GetConfig) THEN <<Item("Project", 0)>> ELSE <<>>)]
    /\ UNCHANGED <<treePc, treeID>>
    /\ TreeIssues({}, ConfigNotices)
    /\ UNCHANGED <<deployVars, archiveVars, nameVars, authVars, sessionVars>>

\* getChildren('Project'): the two identifiers of config.json, or one item
\* saying that nothing is deployed.
GetProjectInformationItems ==
    /\ treeItems' = [treeItems EXCEPT !.of = "Project", !.items =
           IF HasIdentity(GetConfig)
           THEN <<Item("Project", GetConfig.projectID), Item("Service", GetConfig.serviceID)>>
           ELSE <<Item("No project deployed yet", 0)>>]
    /\ UNCHANGED <<treePc, treeID>>
    /\ TreeIssues({}, ConfigNotices)
    /\ UNCHANGED <<deployVars, archiveVars, nameVars, authVars, sessionVars>>

\* The items getActionItems holds before the domain is known.
ActionItemsSoFar == <<Item("Deploy", 0), Item("Open Zeabur Dashboard", 0)>>

\* getChildren('Actions') up to its await: without both identifiers only
\* 'Deploy' is returned, else getDomainOfService issues its environments query.
GetActionItems ==
    /\ treePc = "idle"
    /\ IF HasIdentity(GetConfig)
       THEN /\ treePc' = "environments"
            /\ treeID' = <<GetConfig.projectID, GetConfig.serviceID>>
            /\ UNCHANGED treeItems
       ELSE /\ treeItems' = [treeItems EXCEPT !.of = "Actions", !.items = <<Item("Deploy", 0)>>]
            /\ UNCHANGED <<treePc, treeID>>
    /\ TreeIssues({}, ConfigNotices)
    /\ UNCHANGED <<deployVars, archiveVars, nameVars, authVars, sessionVars>>

\* The environments query of getActionItems is answered: with an environment
\* the domains query is issued; any error is caught and logged, and 'Deploy'
\* and 'Open Zeabur Dashboard' are returned.
GetActionItemsEnvironmentsDone ==
    /\ treePc = "environments"
    /\ \E o \in Outcomes :
         /\ IF o = "ok" /\ treeID[1] \in envReady
            THEN /\ treePc' = "domains"
                 /\ UNCHANGED treeItems
                 /\ TreeIssues(treeOps, {})
            ELSE /\ treePc' = ActionItemsCatch(EnvironmentsError(o))
                 /\ treeItems' = [treeItems EXCEPT !.of = "Actions", !.items = ActionItemsSoFar]
                 /\ TreeIssues(treeOps, {"appendLine"}
                           \cup (IF Notices(o) = <<>> THEN {} ELSE {"showErrorMessage"}))
    /\ UNCHANGED treeID
    /\ UNCHANGED <<deployVars, archiveVars, nameVars, authVars, sessionVars>>

\* The domains query of getActionItems is answered: with a non-empty list
\* 'Open Deployed Website' is added for its first domain; any error is caught
\* and logged, and the items built so far are returned.
GetActionItemsDomainsDone ==
    /\ treePc = "domains"
    /\ \E o \in Outcomes :
         /\ IF o = "ok" /\ domains[treeID[2]] > 0
            THEN /\ treePc' = "idle"
                 /\ treeItems' = [treeItems EXCEPT !.of = "Actions", !.items = Append(ActionItemsSoFar,
                        Item("Open Deployed Website", FirstDomain(DomainsOf(treeID[2]))))]
                 /\ TreeIssues(treeOps, {})
            ELSE /\ treePc' = ActionItemsCatch(DomainsError(o))
                 /\ treeItems' = [treeItems EXCEPT !.of = "Actions", !.items = ActionItemsSoFar]
                 /\ TreeIssues(treeOps, {"appendLine"}
                           \cup (IF Notices(o) = <<>> THEN {} ELSE {"showErrorMessage"}))
    /\ UNCHANGED treeID
    /\ UNCHANGED <<deployVars, archiveVars, nameVars, authVars, sessionVars>>

\* The sidebar is drawn while deploys run one after the other.
NextProvider ==
    \/ NextSeq
    \/ GetRootItems
    \/ GetProjectInformationItems
    \/ GetActionItems
    \/ GetActionItemsEnvironmentsDone
    \/ GetActionItemsDomainsDone

SpecProvider == Init /\ [][NextProvider]_vars

\* What the item builders may issue: the two queries of getDomainOfService,
\* notices and output lines.
ReadOps == {"environments", "domains", "showErrorMessage", "appendLine"}

\* C31: a step of the sidebar's item builders (getRootItems,
\* getProjectInformationItems, getActionItems) leaves config.json, the
\* workspace files and the backend's projects, services, environments and
\* domains as they were, and the only requests it issues are the two queries
\* of the domain lookup: a failed or empty lookup is not followed by addDomain.
C31_SidebarOnlyReads ==
    [][treeVars' # treeVars =>
         /\ UNCHANGED <<fsVars, backendVars, token>>
         /\ treeOps' \subseteq ReadOps
         /\ treePc' \in {"idle", "environments", "domains"}]_vars

\* C31 witness: the sidebar looked the domain up for a deployed service that
\* has no domain, returned without the website item, and no domain was made.
C31_Witness ==
    /\ treePc = "idle"
    /\ "domains" \in treeOps
    /\ treeItems = [of |-> "Actions", items |-> ActionItemsSoFar]
    /\ HasIdentity(config)
    /\ domains[config.serviceID] = 0
    /\ treeID = <<config.projectID, config.serviceID>>

\* The three requests of deploy(code) in the upload-session variant.
SessionRequests == <<"createSession", "uploadFile", "prepare">>

\* The answered requests of handler i, in the order of their answers.
Answered(i) == SelectSeq(log[i], LAMBDA e : \E k \in 1..3 : e.op = SessionRequests[k])

\* The requests handler i has issued: the answered ones and the one awaited.
Issued(i) ==
    [k \in 1..Len(Answered(i)) |-> Answered(i)[k].op]
    \o (IF \E k \in 1..3 : pc[i] = SessionRequests[k] THEN <<pc[i]>> ELSE <<>>)

\* C32: in the upload-session variant the requests of a deploy are issued in
\* the order create session, upload, prepare, each at most once and only after
\* the one before was answered ok; an answer that is not ok, or a failed
\* request, is the last request of the deploy, which then ends with the error
\* and no URL; the URL is opened only after all three were answered ok, as
\* the step that follows the answer to prepare.
C32_SessionRequestsInOrder ==
    \A i \in Inv :
      /\ Len(Issued(i)) <= 3
      /\ Issued(i) = SubSeq(SessionRequests, 1, Len(Issued(i)))
      /\ \A k \in 1..Len(Answered(i)) :
           IF Answered(i)[k].res = "ok"
           THEN TRUE
           ELSE /\ k = Len(Issued(i))
                /\ pc[i] = "done"
                /\ result[i] = NoResult
                /\ raised[i] # <<>>
                /\ Count(i, "openExternal") = 0
      /\ \A n \in 1..Len(log[i]) :
           log[i][n].op = "openExternal" =>
             /\ Len(Answered(i)) = 3
             /\ n > 1
             /\ log[i][n - 1] = Entry("prepare", "ok", 0, 0)
             /\ Count(i, "openExternal") = 1

\* C32 witness: the session was created, the upload to the presigned URL was
\* answered with a status that is not ok, and the deploy ended there: prepare
\* was not issued and nothing was opened.
C32_Witness ==
    \E i \in Inv :
      /\ pc[i] = "done"
      /\ Len(Answered(i)) = 2
      /\ Answered(i)[1] = Entry("createSession", "ok", 0, 0)
      /\ Answered(i)[2] = Entry("uploadFile", "notok", 0, 0)
      /\ Count(i, "prepare") = 0
      /\ Count(i, "openExternal") = 0
      /\ UploadFileError \in {raised[i][k] : k \in 1..Len(raised[i])}
====
